---- MODULE Spec2Model ----
(***************************************************************************)
(* A model of the fiber / channel / thread / marker core of Rubinius:      *)
(*   machine/builtin/channel.cpp   Channel (send, try_receive, receive)    *)
(*   machine/builtin/fiber.cpp     Fiber (resume, transfer, yield, death)  *)
(*   machine/fiber_stack.cpp       FiberStacks (allocate, orphan)          *)
(*   machine/builtin/variable_scope.cpp   VariableScope (locals, locking)  *)
(*   machine/builtin/thread.cpp    Thread (run, join, raise, kill, wakeup) *)
(*   machine/memory/immix_marker.cpp   ImmixMarker (run, after_fork_child) *)
(*   vm/test/test_dir.hpp          Dir (create, open, close, closed_p)     *)
(* Each subsystem has its own specification (SpecChannel, SpecFiber,       *)
(* SpecPool, SpecPoolLock, SpecScope, SpecScopeChain, SpecScopePrim,       *)
(* SpecThread, SpecMarker, SpecDir); the variables of the other            *)
(* subsystems stay at their initial values.  SpecChannelFair and           *)
(* SpecMarkerFair add the fairness of the scheduler for the claims about   *)
(* progress.                                                               *)
(***************************************************************************)
EXTENDS Integers, Sequences, FiniteSets, TLC

VARIABLES
  \* ---- Channel (channel.cpp) ----
  semaphore_count_,   \* Channel::semaphore_count_ : outstanding permits
  value_,             \* Channel::value_ : the List of queued entries
  waiters_,           \* Channel::waiters_
  pinned,             \* the channel object's pinned flag (pin()/unpin())
  cpc,                \* per receiver thread: position inside receive_timeout
  timed,              \* per receiver thread: use_timed_wait of the call in progress
  cres,               \* the last completed receive / try_receive: caller and result
  sent,               \* history: entries passed to send, in call order
  received,           \* history: entries consumed by receivers, in order
  \* ---- Fiber (fiber.cpp) ----
  fib,                \* per Fiber object: its fields
  current_fiber,      \* per thread: VM::current_fiber
  fpc,                \* per thread: "user", "switched" (continuation pending), "abort"
  last,               \* the primitive call made by the last step and its outcome
  \* ---- FiberStacks (fiber_stack.cpp) ----
  stacks_,            \* FiberStacks::stacks_ : list of FiberStack
  lease,              \* per context: index of the stack it holds, 0 for none
  ctx,                \* per context: "none" (no FiberData), "live" or "dead"
  lastAlloc,          \* the last allocate call: requested size, returned stack,
                      \* and the number of contexts holding a stack at the call
  lock_,              \* FiberStacks::lock_ : the thread holding it, or "none"
  inop,               \* per thread: the FiberStacks operation it executes, or "idle"
  seen,               \* per thread: the argument of that operation and, for
                      \* allocate, what its loop over stacks_ found
  \* ---- VariableScope (variable_scope.cpp) ----
  parent_,            \* per created scope: VariableScope::parent_ (Nil for none)
  flags_,             \* per created scope: the flags set in VariableScope::flags_
  target,             \* the scope whose locals the threads below read and write
  isolated_,          \* of the target: VariableScope::isolated_
  heap_locals_,       \* of the target: VariableScope::heap_locals_ (Nil or a tuple)
  locals_,            \* of the target: the slots in the stack, as addressed
                      \* through the fiber's displacement
  scope_lock,         \* of the target: VariableScope::lock_, its holder or "none"
  spc,                \* per thread: the access it executes and its position
  lastAccess,         \* the last completed VariableScope operation
  \* ---- Thread (thread.cpp) ----
  alive,              \* Thread::alive_ of the target thread
  vm_,                \* Thread::vm_ of the target: TRUE while it points to a VM
  rpc,                \* the target's native thread: its position in Thread::run
  join_lock_,         \* Thread::join_lock_ : its holder, or "none"
  jpc,                \* per joiner: its position in Thread::join
  jres,               \* per joiner: what its last join returned, and whether
                      \* the target was alive at that return
  locked_objects,     \* VM::locked_objects of the target
  pending_raise,      \* the exception registered on the target's VM, or "none"
  pending_kill,       \* the kill registered on the target's VM
  raise_reason,       \* thread_state_.raise_reason() of the target
  wakes,              \* number of VM::wakeup calls made on the target's VM
  lastCall,           \* the last raise / kill / wakeup call and its result
  \* ---- ImmixMarker (immix_marker.cpp) ----
  mpc,                \* the marker thread's position in ImmixMarker::run
  thread_exit_,       \* InternalThread::thread_exit_
  collect_full_,      \* what Memory::collect_full_p() returns
  collect_young_,     \* what Memory::collect_young_p() returns
  interrupt_,         \* what Memory::interrupt_p() returns
  mature_mark_,       \* Memory's mature-mark-in-progress flag
  mark_stack,         \* units of work left on the mark stack
  stop_,              \* the stop requested from ThreadNexus (set_stop)
  lock_phase,         \* the marker is inside its LockPhase
  handshake,          \* the calls of the full-collection handshake in progress,
                      \* or of the last one
  marker_data_,       \* ImmixMarker::data_ : TRUE while it points to a GCData
  forked,             \* after_fork_child has run
  \* ---- Dir (test_dir.hpp) ----
  dir_data,           \* per Dir: "none" before create, else Dir::data (Nil when closed)
  lastDir             \* the last Dir call and what it returned

chanVars  == <<semaphore_count_, value_, waiters_, pinned, cpc, timed, cres, sent, received>>
fiberVars == <<fib, current_fiber, fpc, last>>
lockVars  == <<lock_, inop, seen>>
poolVars  == <<stacks_, lease, ctx, lastAlloc, lockVars>>
scopeVars == <<parent_, flags_, target, isolated_, heap_locals_, locals_, scope_lock,
               spc, lastAccess>>
threadVars == <<alive, vm_, rpc, join_lock_, jpc, jres, locked_objects,
                pending_raise, pending_kill, raise_reason, wakes, lastCall>>
markerVars == <<mpc, thread_exit_, collect_full_, collect_young_, interrupt_, mature_mark_,
                mark_stack, stop_, lock_phase, handshake, marker_data_, forked>>
dirVars    == <<dir_data, lastDir>>
vars      == <<chanVars, fiberVars, poolVars, scopeVars, threadVars, markerVars, dirVars>>

\* What the operations of one subsystem leave alone: the other subsystems.
exceptChan   == <<fiberVars, poolVars, scopeVars, threadVars, markerVars, dirVars>>
exceptFiber  == <<chanVars, poolVars, scopeVars, threadVars, markerVars, dirVars>>
exceptPool   == <<chanVars, fiberVars, scopeVars, threadVars, markerVars, dirVars>>
exceptScope  == <<chanVars, fiberVars, poolVars, threadVars, markerVars, dirVars>>
exceptThread == <<chanVars, fiberVars, poolVars, scopeVars, markerVars, dirVars>>
exceptMarker == <<chanVars, fiberVars, poolVars, scopeVars, threadVars, dirVars>>
exceptDir    == <<chanVars, fiberVars, poolVars, scopeVars, threadVars, markerVars>>

\* cNil
Nil == "nil"

(***************************************************************************)
(*                               Channel                                   *)
(***************************************************************************)

\* Bound: number of send calls in a behaviour.
MaxSends == 3

\* Threads that call receive / try_receive.
Receivers == {"r1", "r2"}

\* Arguments of send: nil (a permit) or a non-nil object.
SendVals == {Nil, "a", "b"}

\* The duration argument of receive_timeout: nil, a Fixnum/Float, anything else.
Durations == {"nil", "number", "other"}

\* Results of receive that are not entries.
cFalse      == "false"       \* timed out / woken with nothing to take
Interrupted == "NULL"        \* return NULL: an exception is pending
PrimFailure == "failure"     \* Primitives::failure()

\* A completed call of thread t and what it returned.
Result(t, r) == [thread |-> t, result |-> r]

\* Channel::create
InitChannel ==
  /\ semaphore_count_ = 0
  /\ value_ = <<>>
  /\ waiters_ = 0
  /\ pinned = FALSE
  /\ cpc = [t \in Receivers |-> "idle"]
  /\ timed = [t \in Receivers |-> FALSE]
  /\ cres = Result("none", "none")
  /\ sent = <<>>
  /\ received = <<>>

\* A sequence of n nil entries (the loop of send, lines 49-51).
RECURSIVE Nils(_)
Nils(n) == IF n = 0 THEN <<>> ELSE <<Nil>> \o Nils(n - 1)

\* condition_.signal(): wakes one thread blocked in wait, if there is one.
Signal(pc) ==
  IF \E t \in Receivers : pc[t] = "waiting"
  THEN {[pc EXCEPT ![t] = "woken"] : t \in {u \in Receivers : pc[u] = "waiting"}}
  ELSE {pc}

\* Channel::send without the placeholders of lines 48-53.
Send_NoPlaceholders(val) ==
  /\ Len(sent) < MaxSends
  /\ IF val = Nil
     THEN /\ semaphore_count_' = semaphore_count_ + 1
          /\ value_' = value_
     ELSE /\ semaphore_count_' = 0
          /\ value_' = Append(value_, val)
  /\ IF waiters_ > 0
     THEN cpc' \in Signal(cpc)
     ELSE cpc' = cpc
  /\ sent' = Append(sent, val)
  /\ UNCHANGED <<waiters_, pinned, timed, cres, received>>
  /\ UNCHANGED exceptChan

\* Channel::send
Send(val) ==
  /\ Len(sent) < MaxSends
  /\ IF val = Nil
     THEN /\ semaphore_count_' = semaphore_count_ + 1
          /\ value_' = value_
     ELSE /\ semaphore_count_' = 0
          /\ value_' = Append(value_ \o Nils(semaphore_count_), val)
  /\ IF waiters_ > 0
     THEN cpc' \in Signal(cpc)
     ELSE cpc' = cpc
  /\ sent' = Append(sent, val)
  /\ UNCHANGED <<waiters_, pinned, timed, cres, received>>
  /\ UNCHANGED exceptChan

\* try_receive answering false, as receive does, when there is nothing to take.
TryReceive_FalseOnEmpty(t) ==
  /\ cpc[t] = "idle"
  /\ IF semaphore_count_ > 0
     THEN /\ semaphore_count_' = semaphore_count_ - 1
          /\ cres' = Result(t, Nil)
          /\ received' = Append(received, Nil)
          /\ value_' = value_
     ELSE IF value_ = <<>>
     THEN /\ cres' = Result(t, cFalse)
          /\ UNCHANGED <<semaphore_count_, value_, received>>
     ELSE /\ cres' = Result(t, Head(value_))
          /\ received' = Append(received, Head(value_))
          /\ value_' = Tail(value_)
          /\ semaphore_count_' = semaphore_count_
  /\ UNCHANGED <<waiters_, pinned, cpc, timed, sent>>
  /\ UNCHANGED exceptChan

\* Channel::try_receive
TryReceive(t) ==
  /\ cpc[t] = "idle"
  /\ IF semaphore_count_ > 0
     THEN /\ semaphore_count_' = semaphore_count_ - 1
          /\ cres' = Result(t, Nil)
          /\ received' = Append(received, Nil)
          /\ value_' = value_
     ELSE IF value_ = <<>>
     THEN /\ cres' = Result(t, Nil)
          /\ UNCHANGED <<semaphore_count_, value_, received>>
     ELSE /\ cres' = Result(t, Head(value_))
          /\ received' = Append(received, Head(value_))
          /\ value_' = Tail(value_)
          /\ semaphore_count_' = semaphore_count_
  /\ UNCHANGED <<waiters_, pinned, cpc, timed, sent>>
  /\ UNCHANGED exceptChan

\* Channel::receive_timeout, from the call to the first wait (lines 95-154).
\* async is the result of state->check_async at line 137.
ReceiveCall(t, duration, async) ==
  /\ cpc[t] = "idle"
  /\ IF semaphore_count_ > 0
     THEN /\ semaphore_count_' = semaphore_count_ - 1
          /\ cres' = Result(t, Nil)
          /\ received' = Append(received, Nil)
          /\ UNCHANGED <<value_, waiters_, pinned, cpc, timed>>
     ELSE IF value_ # <<>>
     THEN /\ cres' = Result(t, Head(value_))
          /\ received' = Append(received, Head(value_))
          /\ value_' = Tail(value_)
          /\ UNCHANGED <<semaphore_count_, waiters_, pinned, cpc, timed>>
     ELSE IF duration = "other"
     THEN /\ cres' = Result(t, PrimFailure)
          /\ UNCHANGED <<semaphore_count_, value_, waiters_, pinned, cpc, timed, received>>
     ELSE IF ~async
     THEN /\ pinned' = TRUE
          /\ cres' = Result(t, Interrupted)
          /\ UNCHANGED <<semaphore_count_, value_, waiters_, cpc, timed, received>>
     ELSE /\ pinned' = TRUE
          /\ waiters_' = waiters_ + 1
          /\ timed' = [timed EXCEPT ![t] = (duration = "number")]
          /\ cpc' = [cpc EXCEPT ![t] = "waiting"]
          /\ UNCHANGED <<semaphore_count_, value_, cres, received>>
  /\ UNCHANGED sent
  /\ UNCHANGED exceptChan

\* The exit code taking what is available before it looks at the exception.
ReceiveExit_TakeFirst(t, exception, async) ==
  /\ pinned' = FALSE
  /\ waiters_' = waiters_ - 1
  /\ cpc' = [cpc EXCEPT ![t] = "idle"]
  /\ IF semaphore_count_ > 0
     THEN /\ semaphore_count_' = semaphore_count_ - 1
          /\ cres' = Result(t, Nil)
          /\ received' = Append(received, Nil)
          /\ value_' = value_
     ELSE IF value_ # <<>>
     THEN /\ cres' = Result(t, Head(value_))
          /\ received' = Append(received, Head(value_))
          /\ value_' = Tail(value_)
          /\ semaphore_count_' = semaphore_count_
     ELSE /\ cres' = Result(t, IF exception \/ ~async THEN Interrupted ELSE cFalse)
          /\ UNCHANGED <<semaphore_count_, value_, received>>
  /\ UNCHANGED <<timed, sent>>
  /\ UNCHANGED exceptChan

\* The exit code answering nil when there is nothing to take.
ReceiveExit_NilOnEmpty(t, exception, async) ==
  /\ pinned' = FALSE
  /\ waiters_' = waiters_ - 1
  /\ cpc' = [cpc EXCEPT ![t] = "idle"]
  /\ IF exception \/ ~async
     THEN /\ cres' = Result(t, Interrupted)
          /\ UNCHANGED <<semaphore_count_, value_, received>>
     ELSE IF semaphore_count_ > 0
     THEN /\ semaphore_count_' = semaphore_count_ - 1
          /\ cres' = Result(t, Nil)
          /\ received' = Append(received, Nil)
          /\ value_' = value_
     ELSE IF value_ = <<>>
     THEN /\ cres' = Result(t, Nil)
          /\ UNCHANGED <<semaphore_count_, value_, received>>
     ELSE /\ cres' = Result(t, Head(value_))
          /\ received' = Append(received, Head(value_))
          /\ value_' = Tail(value_)
          /\ semaphore_count_' = semaphore_count_
  /\ UNCHANGED <<timed, sent>>
  /\ UNCHANGED exceptChan

\* The exit code leaving the thread counted when it returns interrupted.
ReceiveExit_KeepsWaiter(t, exception, async) ==
  /\ pinned' = FALSE
  /\ waiters_' = IF exception \/ ~async THEN waiters_ ELSE waiters_ - 1
  /\ cpc' = [cpc EXCEPT ![t] = "idle"]
  /\ IF exception \/ ~async
     THEN /\ cres' = Result(t, Interrupted)
          /\ UNCHANGED <<semaphore_count_, value_, received>>
     ELSE IF semaphore_count_ > 0
     THEN /\ semaphore_count_' = semaphore_count_ - 1
          /\ cres' = Result(t, Nil)
          /\ received' = Append(received, Nil)
          /\ value_' = value_
     ELSE IF value_ = <<>>
     THEN /\ cres' = Result(t, cFalse)
          /\ UNCHANGED <<semaphore_count_, value_, received>>
     ELSE /\ cres' = Result(t, Head(value_))
          /\ received' = Append(received, Head(value_))
          /\ value_' = Tail(value_)
          /\ semaphore_count_' = semaphore_count_
  /\ UNCHANGED <<timed, sent>>
  /\ UNCHANGED exceptChan

\* The code after the wait loop (lines 166-182); exception is the loop's flag,
\* async the result of check_async at line 172.
ReceiveExit(t, exception, async) ==
  /\ pinned' = FALSE
  /\ waiters_' = waiters_ - 1
  /\ cpc' = [cpc EXCEPT ![t] = "idle"]
  /\ IF exception \/ ~async
     THEN /\ cres' = Result(t, Interrupted)
          /\ UNCHANGED <<semaphore_count_, value_, received>>
     ELSE IF semaphore_count_ > 0
     THEN /\ semaphore_count_' = semaphore_count_ - 1
          /\ cres' = Result(t, Nil)
          /\ received' = Append(received, Nil)
          /\ value_' = value_
     ELSE IF value_ = <<>>
     THEN /\ cres' = Result(t, cFalse)
          /\ UNCHANGED <<semaphore_count_, value_, received>>
     ELSE /\ cres' = Result(t, Head(value_))
          /\ received' = Append(received, Head(value_))
          /\ value_' = Tail(value_)
          /\ semaphore_count_' = semaphore_count_
  /\ UNCHANGED <<timed, sent>>
  /\ UNCHANGED exceptChan

\* wait_until returns cTimedOut (line 152): break out of the loop.
ReceiveTimedOut(t, async) ==
  /\ cpc[t] = "waiting"
  /\ timed[t]
  /\ ReceiveExit(t, FALSE, async)

\* wait / wait_until returns because the condition was signalled (the thread
\* is "woken") or spuriously (it is still "waiting"); lines 159-163, then
\* either the next wait or the exit code.  async1, async2 are the results of
\* check_async at lines 160 and 172.
ReceiveWake(t, async1, async2) ==
  /\ cpc[t] \in {"woken", "waiting"}
  /\ IF semaphore_count_ > 0 \/ value_ # <<>>
     THEN ReceiveExit(t, FALSE, async2)
     ELSE IF ~async1
     THEN ReceiveExit(t, TRUE, async2)
     ELSE /\ cpc' = [cpc EXCEPT ![t] = "waiting"]
          /\ UNCHANGED <<semaphore_count_, value_, waiters_, pinned, timed, cres, sent, received>>
          /\ UNCHANGED exceptChan

\* What a thread t that was signalled does next: wait returns to it.
ReceiveSignalled(t) ==
  /\ cpc[t] = "woken"
  /\ \E a1 \in BOOLEAN, a2 \in BOOLEAN : ReceiveWake(t, a1, a2)

\* The deadline of t's timed wait passes.
ReceiveDeadline(t) == \E a \in BOOLEAN : ReceiveTimedOut(t, a)

NextChannel ==
  \/ \E val \in SendVals : Send(val)
  \/ \E t \in Receivers : TryReceive(t)
  \/ \E t \in Receivers, d \in Durations, a \in BOOLEAN : ReceiveCall(t, d, a)
  \/ \E t \in Receivers, a \in BOOLEAN : ReceiveTimedOut(t, a)
  \/ \E t \in Receivers, a1 \in BOOLEAN, a2 \in BOOLEAN : ReceiveWake(t, a1, a2)

(***************************************************************************)
(*                                Fiber                                    *)
(***************************************************************************)

\* Bound: number of Fiber objects made by Fiber::create (the root fibers of
\* the threads come on top).
MaxFibers == 2

\* Native threads (VM objects); NoThread is a null VM pointer.  Thread "A"
\* creates and runs fibers; thread "B" is the other thread of the
\* cross-thread checks: it calls resume / transfer on fibers that "A" runs.
Threads  == {"A", "B"}
NoThread == "none"

\* Fiber objects: one root fiber per thread and the fibers made by
\* Fiber::create; NoFiber is nil<Fiber>().
NoFiber     == "nil"
RootOf(t)   == IF t = "A" THEN "rootA" ELSE "rootB"
RootFibers  == {RootOf(t) : t \in Threads}
FiberNames  == <<"f1", "f2", "f3", "f4">>
UserFibers  == {FiberNames[i] : i \in 1..MaxFibers}
Fibers      == RootFibers \cup UserFibers

\* Objects passed around; argument lists of resume / transfer / yield.
Objects  == {"x"}
ArgLists == {<<>>}

\* An Array reference: nil<Array>() or an array with the given elements.
NilArray  == [isnil |-> TRUE,  elems |-> <<>>]
Array(s)  == [isnil |-> FALSE, elems |-> s]

\* Exceptions a fiber's callable may raise; NoException is nil<Exception>().
NoException == "none"
Exceptions  == {"e"}

\* Messages of Exception::raise_fiber_error
DeadFiberError   == "dead fiber called"
DoubleResume     == "double resume"
CrossThreadError == "cross thread fiber resuming is illegal"
RootYieldError   == "can't yield from root fiber"

\* A Fiber object that Fiber::create has not made yet.
NoFiberObject ==
  [status |-> "None", root |-> FALSE, prev |-> NoFiber, value |-> NilArray,
   exception |-> NoException, data |-> FALSE, thread |-> NoThread,
   dead |-> FALSE, susp |-> "none"]

\* The root fiber of thread t as Fiber::current makes it (lines 32-46).
RootFiberObject(t) ==
  [status |-> "Running", root |-> TRUE, prev |-> NoFiber, value |-> NilArray,
   exception |-> NoException, data |-> TRUE, thread |-> t,
   dead |-> FALSE, susp |-> "none"]

\* The outcome of the primitive executed by the last step: kind is "return"
\* (v the object returned, elems its elements when it is an array), "error"
\* (v the FiberError message), "raise" (v the exception re-raised),
\* "switched" (a context switch was made), "started" (the callable was
\* invoked with elems) or "abort".
Outcome(kind, v, elems) == [kind |-> kind, v |-> v, elems |-> elems]

NoCall == Outcome("none", "", <<>>)

InitFiber ==
  /\ fib = [f \in Fibers |->
             IF \E t \in Threads : f = RootOf(t)
             THEN RootFiberObject(CHOOSE t \in Threads : f = RootOf(t))
             ELSE NoFiberObject]
  /\ current_fiber = [t \in Threads |-> RootOf(t)]
  /\ fpc = [t \in Threads |-> "user"]
  /\ last = NoCall

\* rubinius::abort / a failed assert: the process is gone.
Aborted == [t \in Threads |-> "abort"]

\* Fiber::create
Create(t) ==
  /\ fpc[t] = "user"
  /\ \E i \in 1..MaxFibers :
       /\ fib[FiberNames[i]].status = "None"
       /\ \A j \in 1..(i - 1) : fib[FiberNames[j]].status # "None"
       /\ fib' = [fib EXCEPT ![FiberNames[i]].status = "Created",
                             ![FiberNames[i]].susp = "start"]
       /\ last' = Outcome("return", "fiber", <<>>)
  /\ UNCHANGED <<current_fiber, fpc>>
  /\ UNCHANGED exceptFiber

\* if(!data_) data_ = state->vm()->new_fiber_data();   (FiberStacks::new_data
\* binds the new FiberData to the calling thread)
WithData(F, t, f) ==
  IF F[f].data THEN F
  ELSE [F EXCEPT ![f].data = TRUE, ![f].thread = t, ![f].dead = FALSE]

\* status_ == Fiber::eDead || data_->dead_p()
DeadP(F, f) == F[f].status = "Dead" \/ F[f].dead

\* data_->thread() && data_->thread() != state->vm()
OtherThreadP(F, t, f) == F[f].thread # NoThread /\ F[f].thread # t

\* Fiber::sleep
Sleep(F, f, where) == [F EXCEPT ![f].status = "Sleeping", ![f].susp = where]

\* Fiber::run (the fiber fields; the caller sets vm->current_fiber)
Run(F, f) == [F EXCEPT ![f].status = "Running"]

\* The pending value as the primitive returns it (lines 164-172).
Unwrap(ret) ==
  IF ret.isnil THEN Outcome("return", Nil, <<>>)
  ELSE IF Len(ret.elems) = 0 THEN Outcome("return", Nil, <<>>)
  ELSE IF Len(ret.elems) = 1 THEN Outcome("return", ret.elems[1], <<>>)
  ELSE Outcome("return", "array", ret.elems)

\* FiberData::switch_to / switch_and_orphan entering the context of fiber f:
\* entering a dead context is a fatal error.
SwitchInto(F, t, f) ==
  IF F[f].dead
  THEN fpc' = Aborted
  ELSE fpc' = [fpc EXCEPT ![t] = "switched"]

\* No FiberError raised.
NoError == ""

\* The checks of resume with the check for a second resume left out.
ResumeError_NoDoubleResume(F, t, f) ==
  IF DeadP(F, f) THEN DeadFiberError
  ELSE IF OtherThreadP(F, t, f) THEN CrossThreadError
  ELSE NoError

\* The checks of resume with the check of the owning thread left out.
ResumeError_NoThreadCheck(F, t, f) ==
  IF DeadP(F, f) THEN DeadFiberError
  ELSE IF F[f].prev # NoFiber THEN DoubleResume
  ELSE NoError

\* The checks of resume with the check for a dead fiber left out.
ResumeError_NoDeadCheck(F, t, f) ==
  IF F[f].prev # NoFiber THEN DoubleResume
  ELSE IF OtherThreadP(F, t, f) THEN CrossThreadError
  ELSE NoError

\* The checks of resume, in the order of the code (lines 128-138): the
\* message of the FiberError raised, or NoError.
ResumeError(F, t, f) ==
  IF DeadP(F, f) THEN DeadFiberError
  ELSE IF F[f].prev # NoFiber THEN DoubleResume
  ELSE IF OtherThreadP(F, t, f) THEN CrossThreadError
  ELSE NoError

\* The checks of transfer (lines 184-190).
TransferError(F, t, f) ==
  IF DeadP(F, f) THEN DeadFiberError
  ELSE IF OtherThreadP(F, t, f) THEN CrossThreadError
  ELSE NoError

\* The switch of resume without putting the caller to sleep.
ResumeSwitch_NoSleep(F, cur, f, args) ==
  Run([F EXCEPT ![f].value = Array(args), ![f].prev = cur], f)

\* The fiber fields as resume sets them before switching (lines 140-148):
\* the pending value, the prev link, the caller asleep, the target running.
ResumeSwitch(F, cur, f, args) ==
  Run(Sleep([F EXCEPT ![f].value = Array(args), ![f].prev = cur], cur, "resume"), f)

\* Fiber::resume, up to the context switch (lines 124-150)
Resume(t, f, args) ==
  /\ fpc[t] = "user"
  /\ fib[f].status # "None"
  /\ LET F1  == WithData(fib, t, f)
         cur == current_fiber[t]
         err == ResumeError(F1, t, f)
     IN IF err # NoError
        THEN /\ last' = Outcome("error", err, <<>>)
             /\ fib' = F1
             /\ UNCHANGED <<current_fiber, fpc>>
        ELSE LET F3 == ResumeSwitch(F1, cur, f, args)
             IN /\ fib' = F3
                /\ current_fiber' = [current_fiber EXCEPT ![t] = f]
                /\ SwitchInto(F3, t, f)
                /\ last' = Outcome("switched", "", <<>>)
  /\ UNCHANGED exceptFiber

\* A transfer that links the target to the calling fiber, as resume does.
Transfer_PrevCaller(t, f, args) ==
  /\ fpc[t] = "user"
  /\ fib[f].status # "None"
  /\ LET F1   == WithData(fib, t, f)
         cur  == current_fiber[t]
         err  == TransferError(F1, t, f)
     IN IF err # NoError
        THEN /\ last' = Outcome("error", err, <<>>)
             /\ fib' = F1
             /\ UNCHANGED <<current_fiber, fpc>>
        ELSE LET F2 == [F1 EXCEPT ![f].value = Array(args), ![f].prev = cur]
                 F3 == Run(Sleep(F2, cur, "transfer"), f)
             IN /\ fib' = F3
                /\ current_fiber' = [current_fiber EXCEPT ![t] = f]
                /\ SwitchInto(F3, t, f)
                /\ last' = Outcome("switched", "", <<>>)
  /\ UNCHANGED exceptFiber

\* Fiber::transfer, up to the context switch (lines 180-205)
Transfer(t, f, args) ==
  /\ fpc[t] = "user"
  /\ fib[f].status # "None"
  /\ LET F1   == WithData(fib, t, f)
         cur  == current_fiber[t]
         root == RootOf(t)
         err  == TransferError(F1, t, f)
     IN IF err # NoError
        THEN /\ last' = Outcome("error", err, <<>>)
             /\ fib' = F1
             /\ UNCHANGED <<current_fiber, fpc>>
        ELSE LET F2 == [F1 EXCEPT ![f].value = Array(args), ![f].prev = root]
                 F3 == Run(Sleep(F2, cur, "transfer"), f)
             IN /\ fib' = F3
                /\ current_fiber' = [current_fiber EXCEPT ![t] = f]
                /\ SwitchInto(F3, t, f)
                /\ last' = Outcome("switched", "", <<>>)
  /\ UNCHANGED exceptFiber

\* Clearing the prev link of the destination instead of the yielding fiber.
ClearPrev_OfDest(F, cur, dest_fib) == [F EXCEPT ![dest_fib].prev = NoFiber]

\* cur->prev(state, nil<Fiber>())   (line 244)
ClearPrev(F, cur, dest_fib) == [F EXCEPT ![cur].prev = NoFiber]

\* Fiber::s_yield, up to the context switch (lines 235-253); ndebug tells
\* whether the build compiles assert() away.
Yield(t, args, ndebug) ==
  /\ fpc[t] = "user"
  /\ LET cur      == current_fiber[t]
         dest_fib == fib[cur].prev
     IN IF cur = dest_fib /\ ~ndebug            \* assert(cur != dest_fib)
        THEN /\ fpc' = Aborted
             /\ last' = Outcome("abort", "assert", <<>>)
             /\ UNCHANGED <<fib, current_fiber>>
        ELSE IF fib[cur].root
        THEN /\ last' = Outcome("error", RootYieldError, <<>>)
             /\ UNCHANGED <<fib, current_fiber, fpc>>
        ELSE IF dest_fib = NoFiber              \* nil dereferenced as a Fiber
        THEN /\ fpc' = Aborted
             /\ last' = Outcome("abort", "nil destination", <<>>)
             /\ fib' = [fib EXCEPT ![cur].prev = NoFiber]
             /\ UNCHANGED current_fiber
        ELSE LET F1 == ClearPrev(fib, cur, dest_fib)
                 F2 == [F1 EXCEPT ![dest_fib].value = Array(args)]
                 F3 == Run(Sleep(F2, cur, "yield"), dest_fib)
             IN /\ fib' = F3
                /\ current_fiber' = [current_fiber EXCEPT ![t] = dest_fib]
                /\ SwitchInto(F3, t, dest_fib)
                /\ last' = Outcome("switched", "", <<>>)
  /\ UNCHANGED exceptFiber

\* Fiber::start_on_stack, entered by the first switch into a fiber: the
\* callable is invoked with fib->value() (lines 56-66).
StartOnStack(t) ==
  /\ fpc[t] = "switched"
  /\ LET cur == current_fiber[t]
     IN /\ fib[cur].susp = "start"
        /\ fib' = [fib EXCEPT ![cur].susp = "none"]
        /\ last' = Outcome("started", "", fib[cur].value.elems)
  /\ fpc' = [fpc EXCEPT ![t] = "user"]
  /\ UNCHANGED current_fiber
  /\ UNCHANGED exceptFiber

\* A return from resume / transfer that leaves the exception pending.
ReturnFrom_KeepException(t, op) ==
  /\ fpc[t] = "switched"
  /\ LET cur == current_fiber[t]
     IN /\ fib[cur].susp = op
        /\ IF fib[cur].exception # NoException
           THEN /\ last' = Outcome("raise", fib[cur].exception, <<>>)
                /\ fib' = [fib EXCEPT ![cur].susp = "none"]
           ELSE /\ last' = Unwrap(fib[cur].value)
                /\ fib' = [fib EXCEPT ![cur].susp = "none"]
  /\ fpc' = [fpc EXCEPT ![t] = "user"]
  /\ UNCHANGED current_fiber
  /\ UNCHANGED exceptFiber

\* The code of resume / transfer after the switch back (lines 156-172 and
\* 211-227): re-raise the pending exception, or return the pending value.
ReturnFrom(t, op) ==
  /\ fpc[t] = "switched"
  /\ LET cur == current_fiber[t]
     IN /\ fib[cur].susp = op
        /\ IF fib[cur].exception # NoException
           THEN /\ last' = Outcome("raise", fib[cur].exception, <<>>)
                /\ fib' = [fib EXCEPT ![cur].exception = NoException, ![cur].susp = "none"]
           ELSE /\ last' = Unwrap(fib[cur].value)
                /\ fib' = [fib EXCEPT ![cur].susp = "none"]
  /\ fpc' = [fpc EXCEPT ![t] = "user"]
  /\ UNCHANGED current_fiber
  /\ UNCHANGED exceptFiber

ResumeReturn(t)   == ReturnFrom(t, "resume")
TransferReturn(t) == ReturnFrom(t, "transfer")

\* The code of s_yield after the switch back (lines 259-269).
YieldReturn(t) ==
  /\ fpc[t] = "switched"
  /\ LET cur == current_fiber[t]
     IN /\ fib[cur].susp = "yield"
        /\ last' = Unwrap(fib[cur].value)
        /\ fib' = [fib EXCEPT ![cur].susp = "none"]
  /\ fpc' = [fpc EXCEPT ![t] = "user"]
  /\ UNCHANGED current_fiber
  /\ UNCHANGED exceptFiber

\* How a fiber's callable ends: with an object, with an exception
\* (raise_reason() == cException), or unwinding for another reason.
Outcomes ==
  [kind : {"value"}, v : Objects] \cup [kind : {"exception"}, v : Exceptions]
    \cup [kind : {"unwind"}, v : {""}]

\* The result handed to the destination without the boxing.
Box_Empty(out) == IF out.kind = "value" THEN Array(<<>>) ELSE NilArray

\* The pending value for the destination: the object boxed in an Array of one
\* element, nil<Array>() when the callable did not return (lines 65, 85-88).
Box(out) == IF out.kind = "value" THEN Array(<<out.v>>) ELSE NilArray

\* Fiber::start_on_stack once the callable has finished (lines 68-97).
Finish(t, out) ==
  /\ fpc[t] = "user"
  /\ LET cur  == current_fiber[t]
         F1   == [fib EXCEPT ![cur].status = "Dead"]
         dest == fib[cur].prev
     IN /\ ~fib[cur].root
        /\ IF dest = NoFiber \/ ~F1[dest].data
           \* nil (or a finalized fiber) as the destination: nothing to run
           THEN /\ fib' = F1
                /\ fpc' = Aborted
                /\ last' = Outcome("abort", "no destination", <<>>)
                /\ UNCHANGED current_fiber
           ELSE LET result == Box(out)
                    F2 == IF out.kind = "exception"
                          THEN [F1 EXCEPT ![dest].exception = out.v]
                          ELSE F1
                    F3 == [Run(F2, dest) EXCEPT ![dest].value = result]
                    \* switch_and_orphan(state, fib->data_)
                    F4 == [F3 EXCEPT ![cur].dead = TRUE]
                IN /\ fib' = F4
                   /\ current_fiber' = [current_fiber EXCEPT ![t] = dest]
                   /\ SwitchInto(F3, t, dest)
                   /\ last' = Outcome("switched", "", <<>>)
  /\ UNCHANGED exceptFiber

\* The fibers thread t calls resume / transfer on.
Targets(t) ==
  IF t = "A" THEN Fibers ELSE {f \in Fibers : fib[f].thread = "A"}

NextFiber ==
  \/ \E t \in Threads : Create(t)
  \/ \E t \in Threads, args \in ArgLists : \E f \in Targets(t) : Resume(t, f, args)
  \/ \E t \in Threads, args \in ArgLists : \E f \in Targets(t) : Transfer(t, f, args)
  \/ \E t \in Threads, args \in ArgLists, nd \in BOOLEAN : Yield(t, args, nd)
  \/ \E t \in Threads : StartOnStack(t)
  \/ \E t \in Threads : ResumeReturn(t)
  \/ \E t \in Threads : TransferReturn(t)
  \/ \E t \in Threads : YieldReturn(t)
  \/ \E t \in Threads, out \in Outcomes : Finish(t, out)

(***************************************************************************)
(*                             FiberStacks                                 *)
(***************************************************************************)

\* max_stacks_ (config.machine_fiber_stacks), as configured for the model.
MaxStacks == 2

\* Stack sizes a lease may ask for.
StackSizes == {1, 2}

\* The FiberData contexts that lease stacks: one more than the pool has stacks.
ContextNames == <<"c1", "c2", "c3", "c4", "c5">>
Contexts == {ContextNames[i] : i \in 1..(MaxStacks + 1)}
NoUser   == "none"

\* Threads that call into one FiberStacks object.
PoolThreads == {"t1", "t2"}

\* The operations on the registry datas_; those that take lock_ (lines 103,
\* 110, 162) and those that do not (gc_scan, lines 82-100).
RegistryOps == {"new_data", "remove_data", "gc_clear_mark", "gc_scan"}
LockedOps   == {"new_data", "remove_data", "gc_clear_mark"}

\* No operation in progress.
NoArg == [c |-> "none", size |-> 0, fit |-> 0, room |-> FALSE]

\* FiberStack::FiberStack
NewStack(size) == [size |-> size, refs |-> 0, user |-> NoUser]

\* FiberStack::unused_p
UnusedP(stack) == stack.refs = 0

InitPool ==
  /\ stacks_ = <<>>
  /\ lease = [c \in Contexts |-> 0]
  /\ ctx = [c \in Contexts |-> "none"]
  /\ lastAlloc = [size |-> 0, stack |-> 0, held |-> 0]
  /\ lock_ = "none"
  /\ inop = [t \in PoolThreads |-> "idle"]
  /\ seen = [t \in PoolThreads |-> NoArg]

\* The first loop of allocate asking for a stack larger than requested.
FirstFit_Strict(S, stack_size) ==
  LET fits == {i \in 1..Len(S) : UnusedP(S[i]) /\ S[i].size > stack_size}
  IN IF fits = {} THEN 0 ELSE CHOOSE i \in fits : \A j \in fits : i <= j

\* The first unused stack of sufficient size (lines 115-123), 0 for none.
FirstFit(S, stack_size) ==
  LET fits == {i \in 1..Len(S) : UnusedP(S[i]) /\ S[i].size >= stack_size}
  IN IF fits = {} THEN 0 ELSE CHOOSE i \in fits : \A j \in fits : i <= j

\* The first stack with the fewest references (lines 133-140).
FewestRefs(S) ==
  CHOOSE i \in 1..Len(S) :
    /\ \A j \in 1..Len(S) : S[i].refs <= S[j].refs
    /\ \A j \in 1..(i - 1) : S[j].refs > S[i].refs

\* allocate without the limit on the number of stacks.
Allocate_NoMax(S, stack_size) ==
  IF FirstFit(S, stack_size) # 0
  THEN LET i == FirstFit(S, stack_size)
       IN [stacks |-> [S EXCEPT ![i].refs = @ + 1], stack |-> i]
  ELSE LET S1 == Append(S, NewStack(stack_size))
       IN [stacks |-> [S1 EXCEPT ![Len(S1)].refs = @ + 1], stack |-> Len(S1)]

\* FiberStacks::allocate: the stacks afterwards and the index of the one returned.
Allocate(S, stack_size) ==
  IF FirstFit(S, stack_size) # 0
  THEN LET i == FirstFit(S, stack_size)
       IN [stacks |-> [S EXCEPT ![i].refs = @ + 1], stack |-> i]
  ELSE IF Len(S) < MaxStacks
  THEN LET S1 == Append(S, NewStack(stack_size))
       IN [stacks |-> [S1 EXCEPT ![Len(S1)].refs = @ + 1], stack |-> Len(S1)]
  ELSE LET i == FewestRefs(S)
       IN [stacks |-> [S EXCEPT ![i].refs = @ + 1], stack |-> i]

\* orphan with dec_ref inside the test of the user.
Orphan_DecIfUser(S, i, user) ==
  [S EXCEPT ![i].user = IF @ = user THEN NoUser ELSE @,
            ![i].refs = IF S[i].user = user THEN @ - 1 ELSE @]

\* FiberStack::orphan
Orphan(S, i, user) ==
  [S EXCEPT ![i].user = IF @ = user THEN NoUser ELSE @,
            ![i].refs = @ - 1]

\* The number of contexts that hold a stack.
Holders == Cardinality({c \in Contexts : lease[c] # 0})

\* FiberStacks::new_data: a new FiberData, registered with the pool; it has
\* no stack yet.
NewData(c) ==
  /\ ctx[c] = "none"
  /\ ctx' = [ctx EXCEPT ![c] = "live"]
  /\ UNCHANGED <<stacks_, lease, lastAlloc, lockVars>>
  /\ UNCHANGED exceptPool

\* A live context without a stack leases one (FiberData::allocate_stack calls
\* FiberStacks::allocate, FiberData::take_stack makes it the stack's user).
Lease(c, stack_size) ==
  /\ ctx[c] = "live"
  /\ lease[c] = 0
  /\ LET r == Allocate(stacks_, stack_size)
     IN /\ stacks_' = [r.stacks EXCEPT ![r.stack].user = c]
        /\ lease' = [lease EXCEPT ![c] = r.stack]
        /\ lastAlloc' = [size |-> stack_size, stack |-> r.stack, held |-> Holders]
  /\ UNCHANGED <<ctx, lockVars>>
  /\ UNCHANGED exceptPool

\* FiberData::orphan: the context is dead; the stack it holds, if it still
\* holds one, is given back with FiberStack::orphan.
OrphanData(c) ==
  /\ IF lease[c] # 0
     THEN /\ stacks_' = Orphan(stacks_, lease[c], c)
          /\ lease' = [lease EXCEPT ![c] = 0]
     ELSE UNCHANGED <<stacks_, lease>>
  /\ UNCHANGED lastAlloc

\* The fiber of context c dies: dest->data_->switch_and_orphan(state,
\* fib->data_) in Fiber::start_on_stack orphans the context of the dead fiber.
\* Only a fiber that has run dies, so the context holds a stack.
Die(c) ==
  /\ ctx[c] = "live"
  /\ lease[c] # 0
  /\ OrphanData(c)
  /\ ctx' = [ctx EXCEPT ![c] = "dead"]
  /\ UNCHANGED lockVars
  /\ UNCHANGED exceptPool

\* Fiber::finalize of a fiber that has a context: orphan it (again, when the
\* fiber died before) and delete it.
Finalize(c) ==
  /\ ctx[c] \in {"live", "dead"}
  /\ OrphanData(c)
  /\ ctx' = [ctx EXCEPT ![c] = "none"]
  /\ UNCHANGED lockVars
  /\ UNCHANGED exceptPool

NextPool ==
  \/ \E c \in Contexts : NewData(c)
  \/ \E c \in Contexts, size \in StackSizes : Lease(c, size)
  \/ \E c \in Contexts : Die(c)
  \/ \E c \in Contexts : Finalize(c)

(***************************************************************************)
(*             FiberStacks: the operations step by step, with lock_        *)
(***************************************************************************)

\* The context an operation without a FiberData argument is recorded with.
AnyContext == ContextNames[1]

\* A thread enters new_data, remove_data, gc_clear_mark or gc_scan.  The
\* first three construct a LockGuard on lock_ (lines 103, 110, 162) and wait
\* while another thread holds it; gc_scan takes no lock.  c is the FiberData
\* made or removed.
RegistryBegin(t, op, c) ==
  /\ inop[t] = "idle"
  /\ \A u \in PoolThreads : seen[u].c # c \/ op \in {"gc_clear_mark", "gc_scan"}
  /\ CASE op = "new_data"    -> ctx[c] = "none"
       [] op = "remove_data" -> ctx[c] # "none" /\ lease[c] = 0
       [] OTHER              -> c = AnyContext
  /\ IF op \in LockedOps
     THEN lock_ = "none" /\ lock_' = t
     ELSE UNCHANGED lock_
  /\ inop' = [inop EXCEPT ![t] = op]
  /\ seen' = [seen EXCEPT ![t] = [NoArg EXCEPT !.c = IF op \in {"new_data", "remove_data"} THEN c ELSE "none"]]
  /\ UNCHANGED <<stacks_, lease, ctx, lastAlloc>>
  /\ UNCHANGED exceptPool

\* The operation changes the registry and returns; the LockGuard, if there
\* is one, releases lock_.
RegistryEnd(t) ==
  /\ inop[t] \in RegistryOps
  /\ ctx' = CASE inop[t] = "new_data"    -> [ctx EXCEPT ![seen[t].c] = "live"]
              [] inop[t] = "remove_data" -> [ctx EXCEPT ![seen[t].c] = "none"]
              [] OTHER                   -> ctx
  /\ lock_' = IF lock_ = t THEN "none" ELSE lock_
  /\ inop' = [inop EXCEPT ![t] = "idle"]
  /\ seen' = [seen EXCEPT ![t] = NoArg]
  /\ UNCHANGED <<stacks_, lease, lastAlloc>>
  /\ UNCHANGED exceptPool

\* A thread enters allocate for context c (no lock is taken, lines 114-123)
\* and runs the first loop and the test of the limit on stacks_ as it is now.
AllocateBegin(t, c, stack_size) ==
  /\ inop[t] = "idle"
  /\ ctx[c] = "live"
  /\ lease[c] = 0
  /\ \A u \in PoolThreads : seen[u].c # c
  /\ inop' = [inop EXCEPT ![t] = "allocate"]
  /\ seen' = [seen EXCEPT ![t] = [c |-> c, size |-> stack_size,
                                  fit |-> FirstFit(stacks_, stack_size),
                                  room |-> Len(stacks_) < MaxStacks]]
  /\ UNCHANGED <<stacks_, lease, ctx, lastAlloc, lock_>>
  /\ UNCHANGED exceptPool

\* allocate acts on what it found (lines 120-121, 127-131, 133-147) and
\* returns the stack, which the context takes.
AllocateEnd(t) ==
  /\ inop[t] = "allocate"
  /\ LET a == seen[t]
         r == IF a.fit # 0
              THEN [stacks |-> [stacks_ EXCEPT ![a.fit].refs = @ + 1], stack |-> a.fit]
              ELSE IF a.room
              THEN LET S1 == Append(stacks_, NewStack(a.size))
                   IN [stacks |-> [S1 EXCEPT ![Len(S1)].refs = @ + 1], stack |-> Len(S1)]
              ELSE LET i == FewestRefs(stacks_)
                   IN [stacks |-> [stacks_ EXCEPT ![i].refs = @ + 1], stack |-> i]
     IN /\ stacks_' = [r.stacks EXCEPT ![r.stack].user = a.c]
        /\ lease' = [lease EXCEPT ![a.c] = r.stack]
        /\ lastAlloc' = [size |-> a.size, stack |-> r.stack, held |-> Holders]
  /\ inop' = [inop EXCEPT ![t] = "idle"]
  /\ seen' = [seen EXCEPT ![t] = NoArg]
  /\ UNCHANGED <<ctx, lock_>>
  /\ UNCHANGED exceptPool

\* A context gives its stack back (FiberData::orphan), by the thread that
\* runs or finalizes its fiber.
OrphanStep(t, c) ==
  /\ inop[t] = "idle"
  /\ lease[c] # 0
  /\ \A u \in PoolThreads : seen[u].c # c
  /\ OrphanData(c)
  /\ ctx' = [ctx EXCEPT ![c] = "dead"]
  /\ UNCHANGED lockVars
  /\ UNCHANGED exceptPool

NextPoolLock ==
  \/ \E t \in PoolThreads, op \in RegistryOps, c \in Contexts : RegistryBegin(t, op, c)
  \/ \E t \in PoolThreads : RegistryEnd(t)
  \/ \E t \in PoolThreads, c \in Contexts, size \in StackSizes : AllocateBegin(t, c, size)
  \/ \E t \in PoolThreads : AllocateEnd(t)
  \/ \E t \in PoolThreads, c \in Contexts : OrphanStep(t, c)

(***************************************************************************)
(*                            VariableScope                                *)
(***************************************************************************)

\* Bound: number of VariableScope objects.
MaxScopes == 3

ScopeNames == <<"s1", "s2", "s3", "s4", "s5">>
Scopes == {ScopeNames[i] : i \in 1..MaxScopes}

\* Threads that read and write the locals of the target scope.
ScopeThreads == {"u1", "u2"}

\* The valid local indexes, 0 .. number_of_locals_ - 1, and the objects stored.
Positions == {0, 1}
LocalVals == {"x", "y"}
Tuples == [Positions -> LocalVals]

\* The operations that test locked_p() before they touch the locals.
ScopeOps == {"get_local", "set_local", "flush_to_heap"}

NoAccess == [op |-> "none", path |-> "none", val |-> Nil, scope |-> Nil, guarded |-> FALSE]
IdleAccess == [op |-> "none", at |-> "idle"]

\* The scopes created so far.
Created == DOMAIN parent_

\* locked_p(): the cScopeLocked bit of flags_.
LockedP(F, s) == "cScopeLocked" \in F[s]

RECURSIVE SetLocked(_, _, _)
RECURSIVE SetLockedParents(_, _, _)

\* A set_locked that marks the receiver only.
SetLocked_SelfOnly(P, F, s) == [F EXCEPT ![s] = @ \cup {"cScopeLocked"}]

\* VariableScope::set_locked on scope s, over the parent links P and flags F.
SetLocked(P, F, s) ==
  SetLockedParents(P, [F EXCEPT ![s] = @ \cup {"cScopeLocked"}], P[s])

\* The while loop of set_locked: parent->set_locked(), then parent->parent().
SetLockedParents(P, F, parent) ==
  IF parent = Nil THEN F
  ELSE SetLockedParents(P, SetLocked(P, F, parent), P[parent])

\* The storage an access goes to: heap_locals_ when isolated_, else the stack
\* slots, through the displacement when the fiber's stack has been moved.
AccessPath(iso, dis) ==
  IF iso THEN "heap" ELSE IF dis THEN "displaced" ELSE "stack"

\* get_local_internal with get_local(int).
GetLocalInternal(iso, heap, stack, pos) ==
  IF iso THEN heap[pos] ELSE stack[pos]

\* set_local_internal with set_local(int, Object*): the storage afterwards.
SetLocalInternal(iso, heap, stack, pos, val) ==
  IF iso
    THEN [heap |-> [heap EXCEPT ![pos] = val], stack |-> stack]
    ELSE [heap |-> heap, stack |-> [stack EXCEPT ![pos] = val]]

\* What the loop of flush_to_heap_internal reads: locals_[i] without the
\* displacement. While the stack is moved away that memory holds something else.
RawReads(dis) == IF dis THEN Tuples ELSE {locals_}

\* A flush that copies the slots again on every call.
FlushToHeapInternal_Recopy(iso, heap, raw) == [isolated |-> TRUE, heap |-> raw]

\* flush_to_heap_internal: isolated_ and heap_locals_ afterwards.
FlushToHeapInternal(iso, heap, raw) ==
  IF iso THEN [isolated |-> iso, heap |-> heap]
         ELSE [isolated |-> TRUE, heap |-> raw]

\* A test that never finds the scope locked.
Guarded_Never(F, s) == FALSE

\* The test `if(unlikely(locked_p()))` that opens get_local, set_local and
\* flush_to_heap.
Guarded(F, s) == LockedP(F, s)

\* A chain s1 -> s2 -> ... of unlocked scopes built by earlier calls, the
\* target's locals in the stack.
InitScope ==
  /\ parent_ = [s \in Scopes |->
                  IF \E i \in 1..(MaxScopes - 1) : ScopeNames[i] = s
                    THEN ScopeNames[(CHOOSE i \in 1..(MaxScopes - 1) : ScopeNames[i] = s) + 1]
                    ELSE Nil]
  /\ flags_ = [s \in Scopes |-> {}]
  /\ target \in Scopes
  /\ isolated_ = FALSE
  /\ heap_locals_ = Nil
  /\ locals_ = [p \in Positions |-> "x"]
  /\ scope_lock = "none"
  /\ spc = [t \in ScopeThreads |-> IdleAccess]
  /\ lastAccess = NoAccess

\* No scope created yet.
InitScopeChain ==
  /\ parent_ = << >>
  /\ flags_ = << >>
  /\ target = ScopeNames[1]
  /\ isolated_ = FALSE
  /\ heap_locals_ = Nil
  /\ locals_ = [p \in Positions |-> "x"]
  /\ scope_lock = "none"
  /\ spc = [t \in ScopeThreads |-> IdleAccess]
  /\ lastAccess = NoAccess

\* VariableScope::synthesize: a new scope s whose parent is an existing scope
\* or nil.
Synthesize(s, parent) ==
  /\ s \in Scopes \ Created
  /\ parent \in Created \cup {Nil}
  /\ parent_' = parent_ @@ (s :> parent)
  /\ flags_' = flags_ @@ (s :> {})
  /\ UNCHANGED <<target, isolated_, heap_locals_, locals_, scope_lock, spc, lastAccess>>
  /\ UNCHANGED exceptScope

\* VariableScope::set_locked called on scope s.
SetLockedCall(s) ==
  /\ s \in Created
  /\ flags_' = SetLocked(parent_, flags_, s)
  /\ lastAccess' = [op |-> "set_locked", path |-> "none", val |-> Nil, scope |-> s,
                    guarded |-> FALSE]
  /\ UNCHANGED <<parent_, target, isolated_, heap_locals_, locals_, scope_lock, spc>>
  /\ UNCHANGED exceptScope

\* Thread t enters get_local, set_local or flush_to_heap on the target and
\* tests locked_p().
AccessCall(t, op) ==
  /\ spc[t].at = "idle"
  /\ spc' = [spc EXCEPT ![t] =
               [op |-> op,
                at |-> IF Guarded(flags_, target) THEN "acquire" ELSE "unguarded"]]
  /\ UNCHANGED <<parent_, flags_, target, isolated_, heap_locals_, locals_, scope_lock,
                 lastAccess>>
  /\ UNCHANGED exceptScope

\* The LockGuard constructor: thread t takes lock_ once it is free.
AccessLock(t) ==
  /\ spc[t].at = "acquire"
  /\ scope_lock = "none"
  /\ scope_lock' = t
  /\ spc' = [spc EXCEPT ![t].at = "guarded"]
  /\ UNCHANGED <<parent_, flags_, target, isolated_, heap_locals_, locals_, lastAccess>>
  /\ UNCHANGED exceptScope

\* Thread t is past the locked_p() test of operation op.
Inside(t, op) == spc[t].op = op /\ spc[t].at \in {"guarded", "unguarded"}

\* The step in which thread t returns from operation op.
Returns(t, op) == Inside(t, op) /\ spc'[t] = IdleAccess

\* The return of an access: the LockGuard destructor releases lock_.
AccessReturn(t) ==
  /\ spc' = [spc EXCEPT ![t] = IdleAccess]
  /\ scope_lock' = IF spc[t].at = "guarded" THEN "none" ELSE scope_lock

\* The body of get_local(STATE, pos) and its return.
GetLocalEnd(t, pos, dis) ==
  /\ Inside(t, "get_local")
  /\ lastAccess' = [op |-> "get_local", path |-> AccessPath(isolated_, dis),
                    val |-> GetLocalInternal(isolated_, heap_locals_, locals_, pos),
                    scope |-> target, guarded |-> spc[t].at = "guarded"]
  /\ AccessReturn(t)
  /\ UNCHANGED <<parent_, flags_, target, isolated_, heap_locals_, locals_>>
  /\ UNCHANGED exceptScope

\* The body of set_local(STATE, pos, val) and its return.
SetLocalEnd(t, pos, val, dis) ==
  /\ Inside(t, "set_local")
  /\ LET after == SetLocalInternal(isolated_, heap_locals_, locals_, pos, val)
     IN  /\ heap_locals_' = after.heap
         /\ locals_' = after.stack
  /\ lastAccess' = [op |-> "set_local", path |-> AccessPath(isolated_, dis),
                    val |-> val, scope |-> target, guarded |-> spc[t].at = "guarded"]
  /\ AccessReturn(t)
  /\ UNCHANGED <<parent_, flags_, target, isolated_>>
  /\ UNCHANGED exceptScope

\* The body of flush_to_heap and its return: under the lock it also clears
\* cScopeLocked.
FlushToHeapEnd(t, dis, raw) ==
  /\ Inside(t, "flush_to_heap")
  /\ raw \in RawReads(dis)
  /\ LET after == FlushToHeapInternal(isolated_, heap_locals_, raw)
     IN  /\ isolated_' = after.isolated
         /\ heap_locals_' = after.heap
  /\ flags_' = IF spc[t].at = "guarded"
                 THEN [flags_ EXCEPT ![target] = @ \ {"cScopeLocked"}]
                 ELSE flags_
  /\ lastAccess' = [op |-> "flush_to_heap",
                    path |-> IF isolated_ THEN "none" ELSE "raw",
                    val |-> Nil, scope |-> target, guarded |-> spc[t].at = "guarded"]
  /\ AccessReturn(t)
  /\ UNCHANGED <<parent_, target, locals_>>
  /\ UNCHANGED exceptScope

\* VariableScope::Info::mark on the target: when the scope is not isolated the
\* collector visits the stack slots through the displacement and stores back
\* the references it was handed; the objects the slots denote stay the same.
Mark(dis) ==
  /\ lastAccess' = [op |-> "mark",
                    path |-> IF isolated_ THEN "none" ELSE AccessPath(isolated_, dis),
                    val |-> Nil, scope |-> target, guarded |-> FALSE]
  /\ UNCHANGED <<parent_, flags_, target, isolated_, heap_locals_, locals_, scope_lock, spc>>
  /\ UNCHANGED exceptScope

\* number_of_locals_ of the target.
NumberOfLocals == Cardinality(Positions)

\* The indexes passed to set_local_prim: below, inside and above the range.
PrimIndexes == (Positions \cup {NumberOfLocals}) \cup {0 - 1}

\* Messages of Exception::raise_argument_error
NegativeIndexError == "negative local index"
IndexTooLargeError == "index larger than number of locals"

\* A set_local_prim that does not compare the index with number_of_locals_.
SetLocalPrimError_NoUpperCheck(num) ==
  IF num < 0 THEN NegativeIndexError ELSE NoError

\* The checks of set_local_prim: the error it raises, if any.
SetLocalPrimError(num) ==
  IF num < 0 THEN NegativeIndexError
  ELSE IF num >= NumberOfLocals THEN IndexTooLargeError
  ELSE NoError

\* VariableScope::set_local_prim(number, object), start to return: the index
\* checks, then set_local(state, num, object), under lock_ when the scope is
\* locked.
SetLocalPrim(num, val, dis) ==
  /\ LET err == SetLocalPrimError(num)
         after == SetLocalInternal(isolated_, heap_locals_, locals_, num, val)
     IN  IF err # NoError
           THEN /\ lastAccess' = [op |-> "set_local_prim", path |-> "none", val |-> err,
                                  scope |-> target, guarded |-> FALSE]
                /\ UNCHANGED <<heap_locals_, locals_>>
           ELSE /\ Guarded(flags_, target) => scope_lock = "none"
                /\ heap_locals_' = after.heap
                /\ locals_' = after.stack
                /\ lastAccess' = [op |-> "set_local_prim",
                                  path |-> AccessPath(isolated_, dis), val |-> val,
                                  scope |-> target, guarded |-> Guarded(flags_, target)]
  /\ UNCHANGED <<parent_, flags_, target, isolated_, scope_lock, spc>>
  /\ UNCHANGED exceptScope

NextScopeChain ==
  \/ \E s \in Scopes, parent \in Scopes \cup {Nil} : Synthesize(s, parent)
  \/ \E s \in Scopes : SetLockedCall(s)

NextScope ==
  \/ \E s \in Scopes : SetLockedCall(s)
  \/ \E t \in ScopeThreads, op \in ScopeOps : AccessCall(t, op)
  \/ \E t \in ScopeThreads : AccessLock(t)
  \/ \E t \in ScopeThreads, pos \in Positions, dis \in BOOLEAN : GetLocalEnd(t, pos, dis)
  \/ \E t \in ScopeThreads, pos \in Positions, val \in LocalVals, dis \in BOOLEAN :
       SetLocalEnd(t, pos, val, dis)
  \/ \E t \in ScopeThreads, dis \in BOOLEAN, raw \in Tuples : FlushToHeapEnd(t, dis, raw)
  \/ \E dis \in BOOLEAN : Mark(dis)

\* The one thread of the run in which set_local_prim is called between the
\* other operations.
PrimThreads == {"u1"}

NextScopePrim ==
  \/ \E num \in PrimIndexes, val \in LocalVals, dis \in BOOLEAN : SetLocalPrim(num, val, dis)
  \/ \E s \in Scopes : SetLockedCall(s)
  \/ \E t \in PrimThreads, op \in ScopeOps : AccessCall(t, op)
  \/ \E t \in PrimThreads : AccessLock(t)
  \/ \E t \in PrimThreads, pos \in Positions, dis \in BOOLEAN : GetLocalEnd(t, pos, dis)
  \/ \E t \in PrimThreads, pos \in Positions, val \in LocalVals, dis \in BOOLEAN :
       SetLocalEnd(t, pos, val, dis)
  \/ \E t \in PrimThreads, dis \in BOOLEAN, raw \in Tuples : FlushToHeapEnd(t, dis, raw)

(***************************************************************************)
(*                          Thread (thread.cpp)                            *)
(***************************************************************************)

\* Threads that call join on the target thread.
Joiners == {"j1", "j2"}

\* Who calls kill: the target's own native thread, or another thread.
Callers == {"target", "other"}

\* LockableObjects whose lock the target thread can hold.
LockableObjects == {"o1"}

\* RaisedExceptions passed to raise.
RaisedExceptions == {"e1"}

\* The Thread object returned by join, kill and wakeup (`self`, `this`).
ThreadHandle == "thread"

\* A primitive's return of NULL: an exception is being raised.
Null == "NULL"

JoinerIdle == [at |-> "idle", timed |-> FALSE]
NoJoin == [joiner |-> "none", result |-> "none", alive |-> FALSE, timedout |-> FALSE]
NoThreadCall == [op |-> "none", caller |-> "none", result |-> "none", woke |-> FALSE]

InitThread ==
  /\ alive = TRUE
  /\ vm_ = TRUE
  /\ rpc = "function"
  /\ join_lock_ = "none"
  /\ jpc = [j \in Joiners |-> JoinerIdle]
  /\ jres = NoJoin
  /\ locked_objects = {}
  /\ pending_raise = "none"
  /\ pending_kill = FALSE
  /\ raise_reason = "cNone"
  /\ wakes = 0
  /\ lastCall = NoThreadCall

\* The thread's function takes the lock of object o (the object is added to
\* the VM's locked_objects).
LockObject(o) ==
  /\ rpc = "function"
  /\ o \notin locked_objects
  /\ locked_objects' = locked_objects \cup {o}
  /\ UNCHANGED <<alive, vm_, rpc, join_lock_, jpc, jres, pending_raise, pending_kill,
                 raise_reason, wakes, lastCall>>
  /\ UNCHANGED exceptThread

\* Thread::run: vm->thread->function()(state) returns.
FunctionReturn ==
  /\ rpc = "function"
  /\ rpc' = "finished"
  /\ UNCHANGED <<alive, vm_, join_lock_, jpc, jres, locked_objects, pending_raise,
                 pending_kill, raise_reason, wakes, lastCall>>
  /\ UNCHANGED exceptThread

\* A safepoint check of the target while a kill is registered: the request is
\* taken, the thread state becomes cThreadKill and the function unwinds.
SafepointKill ==
  /\ rpc = "function"
  /\ pending_kill
  /\ pending_kill' = FALSE
  /\ raise_reason' = "cThreadKill"
  /\ rpc' = "finished"
  /\ UNCHANGED <<alive, vm_, join_lock_, jpc, jres, locked_objects, pending_raise,
                 wakes, lastCall>>
  /\ UNCHANGED exceptThread

\* Thread::run: vm->thread->join_lock_.lock()
RunJoinLock ==
  /\ rpc = "finished"
  /\ join_lock_ = "none"
  /\ join_lock_' = "target"
  /\ rpc' = "locked"
  /\ UNCHANGED <<alive, vm_, jpc, jres, locked_objects, pending_raise, pending_kill,
                 raise_reason, wakes, lastCall>>
  /\ UNCHANGED exceptThread

\* Thread::run: vm->thread->stopped(), that is alive(cFalse)
RunStopped ==
  /\ rpc = "locked"
  /\ alive' = FALSE
  /\ rpc' = "stopped"
  /\ UNCHANGED <<vm_, join_lock_, jpc, jres, locked_objects, pending_raise, pending_kill,
                 raise_reason, wakes, lastCall>>
  /\ UNCHANGED exceptThread

\* An exit that leaves the object locks of the thread taken.
RunUnlockObjects_KeepLocks ==
  /\ rpc = "stopped"
  /\ locked_objects' = locked_objects
  /\ rpc' = "released"
  /\ UNCHANGED <<alive, vm_, join_lock_, jpc, jres, pending_raise, pending_kill,
                 raise_reason, wakes, lastCall>>
  /\ UNCHANGED exceptThread

\* Thread::run: unlock_for_terminate on every locked object, then clear()
RunUnlockObjects ==
  /\ rpc = "stopped"
  /\ locked_objects' = {}
  /\ rpc' = "released"
  /\ UNCHANGED <<alive, vm_, join_lock_, jpc, jres, pending_raise, pending_kill,
                 raise_reason, wakes, lastCall>>
  /\ UNCHANGED exceptThread

\* Thread::run: vm->thread->join_cond_.broadcast() ends the wait of every
\* joiner in it.
RunBroadcast ==
  /\ rpc = "released"
  /\ jpc' = [j \in Joiners |->
               IF jpc[j].at = "waiting" THEN [jpc[j] EXCEPT !.at = "woken"] ELSE jpc[j]]
  /\ rpc' = "broadcast"
  /\ UNCHANGED <<alive, vm_, join_lock_, jres, locked_objects, pending_raise, pending_kill,
                 raise_reason, wakes, lastCall>>
  /\ UNCHANGED exceptThread

\* Thread::run: vm->thread->join_lock_.unlock()
RunJoinUnlock ==
  /\ rpc = "broadcast"
  /\ join_lock_' = "none"
  /\ rpc' = "unlocked"
  /\ UNCHANGED <<alive, vm_, jpc, jres, locked_objects, pending_raise, pending_kill,
                 raise_reason, wakes, lastCall>>
  /\ UNCHANGED exceptThread

\* Thread::run: vm->set_zombie(state)
RunZombie ==
  /\ rpc = "unlocked"
  /\ rpc' = "zombie"
  /\ UNCHANGED <<alive, vm_, join_lock_, jpc, jres, locked_objects, pending_raise,
                 pending_kill, raise_reason, wakes, lastCall>>
  /\ UNCHANGED exceptThread

\* Thread::finalize_instance: a zombie VM is discarded and vm_ set to NULL.
FinalizeInstance ==
  /\ vm_
  /\ rpc = "zombie"
  /\ vm_' = FALSE
  /\ UNCHANGED <<alive, rpc, join_lock_, jpc, jres, locked_objects, pending_raise,
                 pending_kill, raise_reason, wakes, lastCall>>
  /\ UNCHANGED exceptThread

\* Thread::join(timeout) up to the LockGuard on join_lock_.
JoinCall(j, with_timeout) ==
  /\ jpc[j].at = "idle"
  /\ IF ~vm_
       THEN /\ jres' = [joiner |-> j, result |-> Nil, alive |-> alive, timedout |-> FALSE]
            /\ UNCHANGED jpc
       ELSE /\ jpc' = [jpc EXCEPT ![j] = [at |-> "lock", timed |-> with_timeout]]
            /\ UNCHANGED jres
  /\ UNCHANGED <<alive, vm_, rpc, join_lock_, locked_objects, pending_raise, pending_kill,
                 raise_reason, wakes, lastCall>>
  /\ UNCHANGED exceptThread

\* Thread::join with join_lock_ taken: the test of alive(); a dead target is
\* returned at once, otherwise the wait on join_cond_ begins, which gives the
\* lock back.
JoinLocked(j) ==
  /\ jpc[j].at = "lock"
  /\ join_lock_ = "none"
  /\ IF alive
       THEN /\ jpc' = [jpc EXCEPT ![j].at = "waiting"]
            /\ UNCHANGED jres
       ELSE /\ jpc' = [jpc EXCEPT ![j] = JoinerIdle]
            /\ jres' = [joiner |-> j, result |-> ThreadHandle, alive |-> alive,
                        timedout |-> FALSE]
  /\ UNCHANGED <<alive, vm_, rpc, join_lock_, locked_objects, pending_raise, pending_kill,
                 raise_reason, wakes, lastCall>>
  /\ UNCHANGED exceptThread

\* The wait on join_cond_ ends without a broadcast, as a condition variable
\* allows.
JoinSpurious(j) ==
  /\ jpc[j].at = "waiting"
  /\ jpc' = [jpc EXCEPT ![j].at = "woken"]
  /\ UNCHANGED <<alive, vm_, rpc, join_lock_, jres, locked_objects, pending_raise,
                 pending_kill, raise_reason, wakes, lastCall>>
  /\ UNCHANGED exceptThread

\* The deadline of wait_until passes.
JoinTimeout(j) ==
  /\ jpc[j].at = "waiting"
  /\ jpc[j].timed
  /\ jpc' = [jpc EXCEPT ![j].at = "timedout"]
  /\ UNCHANGED <<alive, vm_, rpc, join_lock_, jres, locked_objects, pending_raise,
                 pending_kill, raise_reason, wakes, lastCall>>
  /\ UNCHANGED exceptThread

\* What join returns once its wait is over.
JoinResult_AlwaysSelf(at) == ThreadHandle

\* What join returns once its wait is over: nil after cTimedOut, else self.
JoinResult(at) == IF at = "timedout" THEN Nil ELSE ThreadHandle

\* The wait returns with join_lock_ taken again, and join returns; the
\* LockGuard gives the lock back.
JoinReturn(j) ==
  /\ jpc[j].at \in {"woken", "timedout"}
  /\ join_lock_ = "none"
  /\ jres' = [joiner |-> j, result |-> JoinResult(jpc[j].at), alive |-> alive,
              timedout |-> jpc[j].at = "timedout"]
  /\ jpc' = [jpc EXCEPT ![j] = JoinerIdle]
  /\ UNCHANGED <<alive, vm_, rpc, join_lock_, locked_objects, pending_raise, pending_kill,
                 raise_reason, wakes, lastCall>>
  /\ UNCHANGED exceptThread

\* Bound: number of VM::wakeup calls in a behaviour.
MaxWakes == 2

\* Whether raise and kill go on to the target's VM: the test `if(!vm())`.
Bound(v, a) == v

\* Whether wakeup goes on: the test `if(!CBOOL(alive()) || !vm())`.
BoundAndAlive(v, a) == v /\ a

\* Thread::raise(exc), under init_lock_.
Raise(exc) ==
  /\ wakes < MaxWakes
  /\ IF ~Bound(vm_, alive)
       THEN /\ lastCall' = [op |-> "raise", caller |-> "other", result |-> Nil,
                            woke |-> FALSE]
            /\ UNCHANGED <<pending_raise, wakes>>
       ELSE /\ pending_raise' = exc
            /\ wakes' = wakes + 1
            /\ lastCall' = [op |-> "raise", caller |-> "other", result |-> exc,
                            woke |-> TRUE]
  /\ UNCHANGED <<alive, vm_, rpc, join_lock_, jpc, jres, locked_objects, pending_kill,
                 raise_reason>>
  /\ UNCHANGED exceptThread

\* A kill that registers the request whoever calls.
KillBranch_AlwaysRegister(v, a, caller) ==
  IF ~Bound(v, a) THEN "nil" ELSE "register"

\* The branch Thread::kill takes.
KillBranch(v, a, caller) ==
  IF ~Bound(v, a) THEN "nil"
  ELSE IF caller = "target" THEN "raise_thread_kill"
  ELSE "register"

\* Thread::kill, under init_lock_; the target itself can call it only while
\* it runs its function.
Kill(caller) ==
  /\ wakes < MaxWakes
  /\ caller = "target" => rpc = "function"
  /\ LET branch == KillBranch(vm_, alive, caller)
     IN  CASE branch = "nil" ->
                /\ lastCall' = [op |-> "kill", caller |-> caller, result |-> Nil,
                                woke |-> FALSE]
                /\ UNCHANGED <<pending_kill, raise_reason, wakes>>
           [] branch = "raise_thread_kill" ->
                /\ raise_reason' = "cThreadKill"
                /\ lastCall' = [op |-> "kill", caller |-> caller, result |-> Null,
                                woke |-> FALSE]
                /\ UNCHANGED <<pending_kill, wakes>>
           [] branch = "register" ->
                /\ pending_kill' = TRUE
                /\ wakes' = wakes + 1
                /\ lastCall' = [op |-> "kill", caller |-> caller, result |-> ThreadHandle,
                                woke |-> TRUE]
                /\ UNCHANGED raise_reason
  /\ UNCHANGED <<alive, vm_, rpc, join_lock_, jpc, jres, locked_objects, pending_raise>>
  /\ UNCHANGED exceptThread

\* Thread::wakeup, under init_lock_.
Wakeup ==
  /\ wakes < MaxWakes
  /\ IF ~BoundAndAlive(vm_, alive)
       THEN /\ lastCall' = [op |-> "wakeup", caller |-> "other", result |-> PrimFailure,
                            woke |-> FALSE]
            /\ UNCHANGED wakes
       ELSE /\ wakes' = wakes + 1
            /\ lastCall' = [op |-> "wakeup", caller |-> "other", result |-> ThreadHandle,
                            woke |-> TRUE]
  /\ UNCHANGED <<alive, vm_, rpc, join_lock_, jpc, jres, locked_objects, pending_raise,
                 pending_kill, raise_reason>>
  /\ UNCHANGED exceptThread

NextThread ==
  \/ \E o \in LockableObjects : LockObject(o)
  \/ FunctionReturn
  \/ SafepointKill
  \/ RunJoinLock
  \/ RunStopped
  \/ RunUnlockObjects
  \/ RunBroadcast
  \/ RunJoinUnlock
  \/ RunZombie
  \/ FinalizeInstance
  \/ \E j \in Joiners, with_timeout \in BOOLEAN : JoinCall(j, with_timeout)
  \/ \E j \in Joiners : JoinLocked(j)
  \/ \E j \in Joiners : JoinSpurious(j)
  \/ \E j \in Joiners : JoinTimeout(j)
  \/ \E j \in Joiners : JoinReturn(j)
  \/ \E exc \in RaisedExceptions : Raise(exc)
  \/ \E caller \in Callers : Kill(caller)
  \/ Wakeup

(***************************************************************************)
(*                  ImmixMarker (memory/immix_marker.cpp)                  *)
(***************************************************************************)

\* The most units of work the mark stack holds.
MaxWork == 2

\* The calls of the full-collection handshake, in the order of lines 92-97.
HandshakeOrder == <<"set_stop", "lock_phase", "collect_full_finish", "collect_full_restart">>

\* The positions of the marker thread inside ImmixMarker::run.
MarkerPositions ==
  {"top", "mark", "check", "yield", "after", "full", "set_stop", "lock_phase",
   "collect_full_finish", "collect_full_restart", "continue", "sleep", "clear", "done"}

\* A marker has been constructed for a mark cycle in flight and its thread
\* started (ImmixMarker::ImmixMarker): run() is about to test its loop.
InitMarker ==
  /\ mpc = "top"
  /\ thread_exit_ = FALSE
  /\ collect_full_ = FALSE
  /\ collect_young_ = FALSE
  /\ interrupt_ = FALSE
  /\ mature_mark_ = TRUE
  /\ mark_stack = MaxWork
  /\ stop_ = FALSE
  /\ lock_phase = FALSE
  /\ handshake = <<>>
  /\ marker_data_ = TRUE
  /\ forked = "no"

\* What the tests of thread_exit_ in run() see         (lines 66, 73, 86)
ExitTest_Never(flag) == FALSE
ExitTest(flag) == flag

\* while(!thread_exit_) { ... blocking(vm);                (lines 66-70)
MarkerLoopTest ==
  /\ mpc = "top"
  /\ mpc' = IF ExitTest(thread_exit_) THEN "clear" ELSE "mark"
  /\ UNCHANGED <<thread_exit_, collect_full_, collect_young_, interrupt_, mature_mark_,
                 mark_stack, stop_, lock_phase, handshake, marker_data_, forked>>
  /\ UNCHANGED exceptMarker

\* while(immix_->process_mark_stack(interrupt_p()))        (line 72)
\* drains one unit of work and says whether there was one.
MarkerProcess ==
  /\ mpc = "mark"
  /\ IF mark_stack > 0
       THEN mark_stack' = mark_stack - 1 /\ mpc' = "check"
       ELSE mark_stack' = mark_stack /\ mpc' = "after"
  /\ UNCHANGED <<thread_exit_, collect_full_, collect_young_, interrupt_, mature_mark_,
                 stop_, lock_phase, handshake, marker_data_, forked>>
  /\ UNCHANGED exceptMarker

\* The three tests between two units of work               (lines 73-81)
MarkerCheck ==
  /\ mpc = "check"
  /\ IF ExitTest(thread_exit_) \/ collect_full_
       THEN mpc' = "after" /\ interrupt_' = interrupt_
       ELSE IF collect_young_
              THEN mpc' = "yield" /\ interrupt_' = interrupt_
              ELSE IF interrupt_
                     THEN mpc' = "yield" /\ interrupt_' = FALSE
                     ELSE mpc' = "mark" /\ interrupt_' = interrupt_
  /\ UNCHANGED <<thread_exit_, collect_full_, collect_young_, mature_mark_, mark_stack,
                 stop_, lock_phase, handshake, marker_data_, forked>>
  /\ UNCHANGED exceptMarker

\* blocking(vm) after a yield                              (line 83)
MarkerResume ==
  /\ mpc = "yield"
  /\ mpc' = "mark"
  /\ UNCHANGED <<thread_exit_, collect_full_, collect_young_, interrupt_, mature_mark_,
                 mark_stack, stop_, lock_phase, handshake, marker_data_, forked>>
  /\ UNCHANGED exceptMarker

\* if(thread_exit_) break;                                 (line 86)
MarkerExitTest ==
  /\ mpc = "after"
  /\ mpc' = IF ExitTest(thread_exit_) THEN "clear" ELSE "full"
  /\ UNCHANGED <<thread_exit_, collect_full_, collect_young_, interrupt_, mature_mark_,
                 mark_stack, stop_, lock_phase, handshake, marker_data_, forked>>
  /\ UNCHANGED exceptMarker

\* Where run() goes from the test of line 88.
FullTestTarget_Always(full) == "set_stop"
FullTestTarget(full) == IF full THEN "set_stop" ELSE "sleep"

\* if(immix_->memory()->collect_full_p()) ... else sleeping_suspend
MarkerFullTest ==
  /\ mpc = "full"
  /\ mpc' = FullTestTarget(collect_full_)
  /\ UNCHANGED <<thread_exit_, collect_full_, collect_young_, interrupt_, mature_mark_,
                 mark_stack, stop_, lock_phase, handshake, marker_data_, forked>>
  /\ UNCHANGED exceptMarker

\* state->vm()->thread_nexus()->set_stop();                (line 92)
MarkerSetStop ==
  /\ mpc = "set_stop"
  /\ stop_' = TRUE
  /\ handshake' = <<"set_stop">>
  /\ mpc' = "lock_phase"
  /\ UNCHANGED <<thread_exit_, collect_full_, collect_young_, interrupt_, mature_mark_,
                 mark_stack, lock_phase, marker_data_, forked>>
  /\ UNCHANGED exceptMarker

\* LockPhase locked(state);                                (line 94)
MarkerLockPhase ==
  /\ mpc = "lock_phase"
  /\ lock_phase' = TRUE
  /\ handshake' = Append(handshake, "lock_phase")
  /\ mpc' = "collect_full_finish"
  /\ UNCHANGED <<thread_exit_, collect_full_, collect_young_, interrupt_, mature_mark_,
                 mark_stack, stop_, marker_data_, forked>>
  /\ UNCHANGED exceptMarker

\* state->memory()->collect_full_finish(state, data_);     (line 96)
\* finishes the cycle: nothing is left on the mark stack.
MarkerFinish ==
  /\ mpc = "collect_full_finish"
  /\ handshake' = Append(handshake, "collect_full_finish")
  /\ mark_stack' = 0
  /\ mpc' = "collect_full_restart"
  /\ UNCHANGED <<thread_exit_, collect_full_, collect_young_, interrupt_, mature_mark_,
                 stop_, lock_phase, marker_data_, forked>>
  /\ UNCHANGED exceptMarker

\* state->memory()->collect_full_restart(state, data_);    (line 97)
\* begins the next cycle: the request is served, the roots are on the mark
\* stack and a mature mark is in progress again.
MarkerRestart ==
  /\ mpc = "collect_full_restart"
  /\ handshake' = Append(handshake, "collect_full_restart")
  /\ collect_full_' = FALSE
  /\ mature_mark_' = TRUE
  /\ \E w \in 0..MaxWork : mark_stack' = w
  /\ forked' = IF forked = "child" THEN "cycle" ELSE forked
  /\ mpc' = "continue"
  /\ UNCHANGED <<thread_exit_, collect_young_, interrupt_, stop_, lock_phase, marker_data_>>
  /\ UNCHANGED exceptMarker

\* continue;  leaves the scope of the LockPhase            (lines 94, 104)
MarkerContinue ==
  /\ mpc = "continue"
  /\ lock_phase' = FALSE
  /\ stop_' = FALSE
  /\ mpc' = "top"
  /\ UNCHANGED <<thread_exit_, collect_full_, collect_young_, interrupt_, mature_mark_,
                 mark_stack, handshake, marker_data_, forked>>
  /\ UNCHANGED exceptMarker

\* sleeping_suspend(state, ...) returns after its interval (line 107)
MarkerSleep ==
  /\ mpc = "sleep"
  /\ mpc' = "top"
  /\ UNCHANGED <<thread_exit_, collect_full_, collect_young_, interrupt_, mature_mark_,
                 mark_stack, stop_, lock_phase, handshake, marker_data_, forked>>
  /\ UNCHANGED exceptMarker

\* What run() leaves in the flag when its loop has exited.
FlagAtExit_Kept(flag) == flag
FlagAtExit(flag) == FALSE

\* state->memory()->clear_mature_mark_in_progress();       (line 110)
MarkerExit ==
  /\ mpc = "clear"
  /\ mature_mark_' = FlagAtExit(mature_mark_)
  /\ mpc' = "done"
  /\ UNCHANGED <<thread_exit_, collect_full_, collect_young_, interrupt_, mark_stack,
                 stop_, lock_phase, handshake, marker_data_, forked>>
  /\ UNCHANGED exceptMarker

\* ImmixMarker::cleanup: if(data_) { delete data_; data_ = NULL; }
Cleanup(data) == FALSE

\* ImmixMarker::after_fork_child, in the child of a fork: the marker thread
\* of the parent does not exist there; the marker is cleaned up, the flag is
\* cleared and InternalThread::after_fork_child starts a new thread.  A
\* fork does not happen while the marker holds the stop-the-world phase.
AfterForkChild ==
  /\ ~lock_phase
  /\ marker_data_' = Cleanup(marker_data_)
  /\ mature_mark_' = FALSE
  /\ mpc' = "top"
  /\ thread_exit_' = FALSE
  /\ stop_' = FALSE
  /\ handshake' = <<>>
  /\ forked' = "child"
  /\ UNCHANGED <<collect_full_, collect_young_, interrupt_, mark_stack, lock_phase>>
  /\ UNCHANGED exceptMarker

\* ImmixMarker::stop: InternalThread::stop asks the thread to exit.
MarkerStop ==
  /\ ~thread_exit_
  /\ mpc # "done"
  /\ thread_exit_' = TRUE
  /\ UNCHANGED <<mpc, collect_full_, collect_young_, interrupt_, mature_mark_, mark_stack,
                 stop_, lock_phase, handshake, marker_data_, forked>>
  /\ UNCHANGED exceptMarker

\* A mutator asks for a full collection (collect_full_p() becomes true).
RequestFull ==
  /\ ~collect_full_
  /\ collect_full_' = TRUE
  /\ UNCHANGED <<mpc, thread_exit_, collect_young_, interrupt_, mature_mark_, mark_stack,
                 stop_, lock_phase, handshake, marker_data_, forked>>
  /\ UNCHANGED exceptMarker

\* A young collection is requested, or the one requested has been done.
RequestYoung ==
  /\ collect_young_' = ~collect_young_
  /\ UNCHANGED <<mpc, thread_exit_, collect_full_, interrupt_, mature_mark_, mark_stack,
                 stop_, lock_phase, handshake, marker_data_, forked>>
  /\ UNCHANGED exceptMarker

\* An interrupt becomes pending (interrupt_p() becomes true).
Interrupt ==
  /\ ~interrupt_
  /\ interrupt_' = TRUE
  /\ UNCHANGED <<mpc, thread_exit_, collect_full_, collect_young_, mature_mark_, mark_stack,
                 stop_, lock_phase, handshake, marker_data_, forked>>
  /\ UNCHANGED exceptMarker

\* The steps of the marker thread inside ImmixMarker::run.
MarkerRun ==
  \/ MarkerLoopTest
  \/ MarkerProcess
  \/ MarkerCheck
  \/ MarkerResume
  \/ MarkerExitTest
  \/ MarkerFullTest
  \/ MarkerSetStop
  \/ MarkerLockPhase
  \/ MarkerFinish
  \/ MarkerRestart
  \/ MarkerContinue
  \/ MarkerSleep
  \/ MarkerExit

NextMarker ==
  \/ MarkerLoopTest
  \/ MarkerProcess
  \/ MarkerCheck
  \/ MarkerResume
  \/ MarkerExitTest
  \/ MarkerFullTest
  \/ MarkerSetStop
  \/ MarkerLockPhase
  \/ MarkerFinish
  \/ MarkerRestart
  \/ MarkerContinue
  \/ MarkerSleep
  \/ MarkerExit
  \/ AfterForkChild
  \/ MarkerStop
  \/ RequestFull
  \/ RequestYoung
  \/ Interrupt

(***************************************************************************)
(*                        Dir (vm/test/test_dir.hpp)                       *)
(***************************************************************************)

\* The Dir objects and the paths they are opened on.
Dirs == {"d1", "d2", "d3"}
Paths == {".", "/tmp"}
NoDir == "none"
Qnil == "Qnil"
Qtrue == "Qtrue"
Qfalse == "Qfalse"
IOError == "IOError"
\* Dir::data of a Dir opened on path p: the directory stream, named by its path.
DirData(p) == p

NoDirCall == [op |-> "none", dir |-> NoDir, result |-> Qnil]

InitDir ==
  /\ dir_data = [d \in Dirs |-> NoDir]
  /\ lastDir = NoDirCall

\* d->closed_p(state)
ClosedP(data) == IF data = Qnil THEN Qtrue ELSE Qfalse

\* d = Dir::create(state);   d->data->nil_p()
DirCreate(d) ==
  /\ dir_data[d] = NoDir
  /\ dir_data' = [dir_data EXCEPT ![d] = Qnil]
  /\ lastDir' = [op |-> "create", dir |-> d, result |-> d]
  /\ UNCHANGED exceptDir

\* d->open(state, path) returns Qnil and leaves data present.
DirOpen(d, p) ==
  /\ dir_data[d] # NoDir
  /\ dir_data' = [dir_data EXCEPT ![d] = DirData(p)]
  /\ lastDir' = [op |-> "open", dir |-> d, result |-> Qnil]
  /\ UNCHANGED exceptDir

\* What close leaves in data.
DataAfterClose_Kept(data) == data
DataAfterClose(data) == Qnil

\* d->close(state) on an open Dir returns Qtrue and leaves data nil; on a
\* closed Dir it raises IOError.
DirClose(d) ==
  /\ dir_data[d] # NoDir
  /\ IF ClosedP(dir_data[d]) = Qtrue
       THEN /\ lastDir' = [op |-> "close", dir |-> d, result |-> IOError]
            /\ dir_data' = dir_data
       ELSE /\ lastDir' = [op |-> "close", dir |-> d, result |-> Qtrue]
            /\ dir_data' = [dir_data EXCEPT ![d] = DataAfterClose(dir_data[d])]
  /\ UNCHANGED exceptDir

\* d->closed_p(state)
DirClosedP(d) ==
  /\ dir_data[d] # NoDir
  /\ lastDir' = [op |-> "closed_p", dir |-> d, result |-> ClosedP(dir_data[d])]
  /\ UNCHANGED dir_data
  /\ UNCHANGED exceptDir

NextDir ==
  \/ \E d \in Dirs : DirCreate(d)
  \/ \E d \in Dirs, p \in Paths : DirOpen(d, p)
  \/ \E d \in Dirs : DirClose(d)
  \/ \E d \in Dirs : DirClosedP(d)

(***************************************************************************)
(*                           Specifications                                *)
(***************************************************************************)

\* The state after construction: no VariableScope exists yet.
Init == InitChannel /\ InitFiber /\ InitPool /\ InitScopeChain /\ InitThread /\ InitMarker
        /\ InitDir
\* The state once the chain of scopes has been built.
InitScoped == InitChannel /\ InitFiber /\ InitPool /\ InitScope /\ InitThread /\ InitMarker
              /\ InitDir

SpecChannel == Init /\ [][NextChannel]_vars
\* A signalled receiver is scheduled and its wait returns; the deadline of
\* a timed wait passes.  A wait that was not signalled need never return.
SpecChannelFair ==
  /\ Init
  /\ [][NextChannel]_vars
  /\ \A t \in Receivers : WF_vars(ReceiveSignalled(t)) /\ WF_vars(ReceiveDeadline(t))
SpecFiber   == Init /\ [][NextFiber]_vars
SpecPool    == Init /\ [][NextPool]_vars
SpecPoolLock == Init /\ [][NextPoolLock]_vars
SpecScope   == InitScoped /\ [][NextScope]_vars
SpecScopeChain == Init /\ [][NextScopeChain]_vars
SpecScopePrim == InitScoped /\ [][NextScopePrim]_vars
SpecThread  == Init /\ [][NextThread]_vars
SpecMarker  == Init /\ [][NextMarker]_vars
\* The marker thread is scheduled again and again, and every call it makes
\* (a unit of marking, a safepoint, the sleep) returns.
SpecMarkerFair == Init /\ [][NextMarker]_vars /\ WF_vars(MarkerRun)
SpecDir     == Init /\ [][NextDir]_vars

(***************************************************************************)
(*                              Properties                                 *)
(***************************************************************************)

\* The fields of the fibers and of the scheduler that a failed call must
\* leave alone.
fiberState == <<fib, current_fiber, fpc>>

\* C1: the entries receivers take out of a channel are the entries sent, in
\* the order they were sent, a send(nil) counting as one nil entry at its
\* place in that order.
C1_ReceivedInSendOrder ==
  /\ Len(received) <= Len(sent)
  /\ \A i \in 1..Len(received) : received[i] = sent[i]

\* Every call of resume records its outcome in last, as an error or as a
\* switch: only the steps that end with such a record can be calls of resume.
ResumeRecorded == last'.kind \in {"error", "switched"}

\* C2: resume of a dead fiber (status Dead or dead context) raises the
\* dead-fiber error, resume of a live fiber whose prev link is set raises the
\* double-resume error, and in both cases nothing is switched and no fiber
\* field nor the current fiber changes.
C2_ResumePreconditions ==
  [][ResumeRecorded =>
     \A t \in Threads, f \in Fibers, args \in ArgLists :
       ((DeadP(fib, f) \/ fib[f].prev # NoFiber) /\ Resume(t, f, args)) =>
         /\ DeadP(fib, f) =>
              /\ last' = Outcome("error", DeadFiberError, <<>>)
              /\ UNCHANGED fiberState
         /\ (~DeadP(fib, f) /\ fib[f].prev # NoFiber) =>
              /\ last' = Outcome("error", DoubleResume, <<>>)
              /\ UNCHANGED fiberState]_vars

\* C2 happens: a resume was refused as a double resume while another fiber is dead.
C2_Witness ==
  /\ last = Outcome("error", DoubleResume, <<>>)
  /\ \E f \in Fibers : fib[f].status = "Dead"

\* C3: transfer has the preconditions of resume: to a target that is dead,
\* whose prev link is set or that belongs to another thread it fails and
\* changes no fiber field nor the current fiber; the error is the dead-fiber
\* error for a dead target, the double-resume error for a live target of the
\* calling thread whose prev link is set, the cross-thread error for a live
\* target of another thread whose prev link is not set.
C3_TransferPreconditions ==
  [][\A t \in Threads, f \in Fibers, args \in ArgLists :
       ((DeadP(fib, f) \/ fib[f].prev # NoFiber \/ OtherThreadP(fib, t, f))
          /\ Transfer(t, f, args)) =>
         /\ last'.kind = "error"
         /\ UNCHANGED fiberState
         /\ DeadP(fib, f) => last'.v = DeadFiberError
         /\ (~DeadP(fib, f) /\ fib[f].prev # NoFiber /\ ~OtherThreadP(fib, t, f)) =>
              last'.v = DoubleResume
         /\ (~DeadP(fib, f) /\ fib[f].prev = NoFiber /\ OtherThreadP(fib, t, f)) =>
              last'.v = CrossThreadError]_vars

\* C4: on every thread exactly one fiber is Running, it is the thread's
\* current fiber, and every other fiber is Created, Sleeping or Dead.
C4_OneRunningFiber ==
  \A t \in Threads :
    /\ fib[current_fiber[t]].status = "Running"
    /\ fib[current_fiber[t]].thread = t
    /\ \A f \in Fibers :
         (fib[f].status # "None" /\ \A u \in Threads : f # current_fiber[u]) =>
           fib[f].status \in {"Created", "Sleeping", "Dead"}

\* C4 happens: a created fiber runs while its resumer sleeps and another is dead.
C4_Witness ==
  /\ current_fiber["A"] \in UserFibers
  /\ fib[RootOf("A")].status = "Sleeping"
  /\ \E f \in UserFibers : fib[f].status = "Dead"

\* The fiber reached from f by following prev n times (NoFiber once the
\* chain has ended).
RECURSIVE PrevAfter(_, _)
PrevAfter(f, n) ==
  IF n = 0 \/ f = NoFiber THEN f ELSE PrevAfter(fib[f].prev, n - 1)

\* C5: the prev links are acyclic: from every fiber, following prev reaches
\* nil.
C5_PrevAcyclic ==
  \A f \in Fibers : PrevAfter(f, Cardinality(Fibers)) = NoFiber

\* C6: the running fiber of a thread, when it is not the root fiber, has a
\* prev link, and that link designates a fiber with a live context.
C6_RunningHasLivePrev ==
  \A t \in Threads :
    LET cur == current_fiber[t]
    IN ~fib[cur].root =>
         /\ fib[cur].prev # NoFiber
         /\ fib[fib[cur].prev].data
         /\ ~DeadP(fib, fib[cur].prev)

\* C6 happens: a created fiber yielded to the created fiber that resumed it,
\* which runs again with its own prev link still set.
C6_Witness ==
  \E t \in Threads :
    LET cur == current_fiber[t]
    IN /\ cur \in UserFibers
       /\ fib[cur].prev # NoFiber
       /\ fpc[t] = "user"
       /\ \E g \in UserFibers : fib[g].status = "Sleeping" /\ fib[g].susp = "yield"

\* C7: yield from the root fiber raises the root-fiber-yield error, whatever
\* the state: no switch, no abort, no fiber field changed.
C7_RootYieldFails ==
  [][\A t \in Threads, args \in ArgLists, nd \in BOOLEAN :
       (fib[current_fiber[t]].root /\ Yield(t, args, nd)) =>
         /\ last' = Outcome("error", RootYieldError, <<>>)
         /\ UNCHANGED fiberState]_vars

\* C8 as claimed: resume of a fiber bound to another thread raises the
\* cross-thread error and changes no fiber state.
C8_CrossThreadError ==
  [][\A t \in Threads, f \in Fibers, args \in ArgLists :
       (OtherThreadP(fib, t, f) /\ Resume(t, f, args)) =>
         /\ last' = Outcome("error", CrossThreadError, <<>>)
         /\ UNCHANGED fiberState]_vars

\* C8 as amended: resume of a fiber bound to another thread fails and changes
\* no fiber state, so the fiber never runs on that thread; the error is the
\* dead-fiber error for a dead fiber, else the double-resume error for a
\* fiber whose prev link is set, else the cross-thread error.
C8_CrossThreadRefused ==
  [][ResumeRecorded =>
     \A t \in Threads, f \in Fibers, args \in ArgLists :
       (OtherThreadP(fib, t, f) /\ Resume(t, f, args)) =>
         /\ last'.kind = "error"
         /\ last'.v = (IF fib[f].status = "Dead" \/ fib[f].dead THEN DeadFiberError
                       ELSE IF fib[f].prev # NoFiber THEN DoubleResume
                       ELSE CrossThreadError)
         /\ UNCHANGED fiberState
         /\ current_fiber'[t] # f]_vars

\* C8 happens: the cross-thread error was raised while thread A runs a created fiber.
C8_Witness ==
  /\ last = Outcome("error", CrossThreadError, <<>>)
  /\ current_fiber["A"] \in UserFibers

\* C9: when a fiber's callable finishes the fiber is Dead, its prev fiber is
\* Running and current; after a normal return the prev fiber's pending value
\* is the returned object in an Array of one element, which the pending
\* resume / transfer then returns; after an exception the prev fiber's pending
\* exception is that exception and its pending value is nil.
C9_FinishHandsOver ==
  [][/\ \A t \in Threads, out \in Outcomes :
          Finish(t, out) =>
            LET cur  == current_fiber[t]
                dest == fib[cur].prev
            IN /\ dest # NoFiber
               /\ fib'[cur].status = "Dead"
               /\ current_fiber'[t] = dest
               /\ fib'[dest].status = "Running"
               /\ fpc'[t] = "switched"
               /\ out.kind = "value" =>
                    /\ fib'[dest].value = [isnil |-> FALSE, elems |-> <<out.v>>]
                    /\ fib'[dest].exception = fib[dest].exception
               /\ out.kind = "exception" =>
                    /\ fib'[dest].exception = out.v
                    /\ fib'[dest].value = NilArray
     /\ \A t \in Threads :
          LET cur == current_fiber[t]
          IN (/\ ResumeReturn(t) \/ TransferReturn(t)
              /\ fib[cur].exception = NoException
              /\ ~fib[cur].value.isnil
              /\ Len(fib[cur].value.elems) = 1) =>
                last' = Outcome("return", fib[cur].value.elems[1], <<>>)]_vars

\* C9 happens: a fiber died and its resumer got the returned object back.
C9_Witness ==
  /\ last = Outcome("return", "x", <<>>)
  /\ \E f \in UserFibers :
       /\ fib[f].status = "Dead"
       /\ fib[f].prev # NoFiber
       /\ fib[fib[f].prev].status = "Running"

\* C10: the stack returned by allocate is at least as large as the size asked for.
C10_LeaseCapacity ==
  lastAlloc.stack # 0 => stacks_[lastAlloc.stack].size >= lastAlloc.size

C12_RecycledAfterRelease ==
  [][/\ \A c \in Contexts, size \in StackSizes :
          (/\ Holders = 0
           /\ \E i \in 1..Len(stacks_) : stacks_[i].size >= size
           /\ Lease(c, size)) =>
             /\ Len(stacks_') = Len(stacks_)
             /\ lease'[c] \in 1..Len(stacks_)
             /\ stacks_[lease'[c]].size >= size
     /\ \A c \in Contexts :
          (Die(c) \/ Finalize(c)) =>
             /\ Len(stacks_') = Len(stacks_)
             /\ \A i \in 1..Len(stacks_) : stacks_'[i].size = stacks_[i].size]_vars

\* C12 happens: with the pool full, a lease made when nothing was held got the
\* second stack of the pool.
C12_Witness ==
  /\ Len(stacks_) = MaxStacks
  /\ lastAlloc.held = 0
  /\ lastAlloc.stack = MaxStacks
  /\ Holders = 1

\* C13: every stack's reference count is the number of contexts that hold it
\* (so it is never negative), a context that is not live holds none, and the
\* finalization of a context that died before changes no stack.
C13_RefsCountHolders ==
  [][/\ \A i \in 1..Len(stacks_') :
          /\ stacks_'[i].refs = Cardinality({c \in Contexts : lease'[c] = i})
          /\ stacks_'[i].refs >= 0
     /\ \A c \in Contexts : ctx'[c] # "live" => lease'[c] = 0
     /\ \A c \in Contexts :
          (ctx[c] = "dead" /\ Finalize(c)) => stacks_' = stacks_]_vars

\* C13 happens: a context died and gave back a stack that another context
\* still holds.
C13_Witness ==
  /\ \E c \in Contexts : ctx[c] = "dead"
  /\ \E i \in 1..Len(stacks_) :
       /\ stacks_[i].refs = 1
       /\ stacks_[i].user = NoUser
       /\ \E c \in Contexts : lease[c] = i

\* C14: allocate, new_data, remove_data, gc_clear_mark and gc_scan exclude
\* one another: at most one thread is inside one of them; no thread is about
\* to take a stack that it found unused and that has been taken since; and
\* the pool has at most max_stacks_ stacks.
C14_PoolOpsSerialized ==
  /\ Cardinality({t \in PoolThreads : inop[t] # "idle"}) <= 1
  /\ \A t \in PoolThreads :
       (inop[t] = "allocate" /\ seen[t].fit # 0) => UnusedP(stacks_[seen[t].fit])
  /\ Len(stacks_) <= MaxStacks

\* Nothing is taken out of the channel by the step.
NothingConsumed == UNCHANGED <<semaphore_count_, value_, received>>

\* C15: try_receive on a channel without permits and without entries returns
\* nil, does not wait, does not register as a waiter, and leaves the permit
\* counter, the list and the waiter counter as they are.
C15_TryReceiveEmpty ==
  [][\A t \in Receivers :
       (semaphore_count_ = 0 /\ value_ = <<>> /\ TryReceive(t)) =>
         /\ cres' = Result(t, Nil)
         /\ cpc'[t] = "idle"
         /\ NothingConsumed
         /\ UNCHANGED <<waiters_, pinned, cpc>>]_vars

\* C15 happens: try_receive returned nil though nothing was ever taken, while
\* the other receiver is blocked.
C15_Witness ==
  /\ cres.result = Nil
  /\ received = <<>>
  /\ \E t \in Receivers : cpc[t] = "waiting" /\ t # cres.thread

\* C16: when check_async fails before the wait, in the wait loop or after it,
\* receive returns the interrupted result and takes nothing out of the
\* channel, also when a permit or an entry is there.
C16_InterruptedConsumesNothing ==
  [][\A t \in Receivers :
       /\ \A d \in Durations :
            (/\ semaphore_count_ = 0 /\ value_ = <<>> /\ d # "other"
             /\ ReceiveCall(t, d, FALSE)) =>
               cres' = Result(t, Interrupted) /\ NothingConsumed
       /\ ReceiveTimedOut(t, FALSE) =>
               cres' = Result(t, Interrupted) /\ NothingConsumed
       /\ \A a1 \in BOOLEAN, a2 \in BOOLEAN :
            (/\ IF semaphore_count_ > 0 \/ value_ # <<>> THEN ~a2 ELSE ~a1
             /\ ReceiveWake(t, a1, a2)) =>
               cres' = Result(t, Interrupted) /\ NothingConsumed]_vars

\* C16 happens: a receive that waited returned interrupted while an entry is
\* in the list.
C16_Witness ==
  /\ cres.result = Interrupted
  /\ ~pinned
  /\ value_ # <<>>
  /\ cpc[cres.thread] = "idle"

\* C17 as claimed: a timed receive whose deadline passes while the channel
\* has no permit and no entry returns false and takes nothing.
C17_TimedOutReturnsFalse ==
  [][\A t \in Receivers, a \in BOOLEAN :
       (semaphore_count_ = 0 /\ value_ = <<>> /\ ReceiveTimedOut(t, a)) =>
         /\ cres' = Result(t, cFalse)
         /\ NothingConsumed]_vars

\* C17 as amended: such a receive takes nothing and returns false, which is
\* neither nil nor the interrupted result, unless check_async fails after the
\* wait, when it returns the interrupted result.
C17_TimedOutFalseOrInterrupted ==
  [][\A t \in Receivers, a \in BOOLEAN :
       (semaphore_count_ = 0 /\ value_ = <<>> /\ ReceiveTimedOut(t, a)) =>
         /\ cres' = Result(t, IF a THEN cFalse ELSE Interrupted)
         /\ cFalse \notin {Nil, Interrupted}
         /\ cres'.result \notin SendVals
         /\ NothingConsumed]_vars

\* C17 happens: a receive returned false.
C17_Witness ==
  /\ cres.result = cFalse
  /\ cpc[cres.thread] = "idle"
  /\ received = <<>>

\* The scopes reached from s through the parent links P, s included.
RECURSIVE ChainOf(_, _)
ChainOf(P, s) == IF s = Nil THEN {} ELSE {s} \cup ChainOf(P, P[s])

\* C18: flush_to_heap is one-way and idempotent: once the scope is isolated it
\* stays isolated; a flush_to_heap on an isolated scope changes neither the
\* heap storage nor the value any local reads as; and every get_local and
\* set_local on an isolated scope goes to the heap storage, not to the stack
\* slots (plain or displaced).
C18_FlushOneWayIdempotent ==
  [][/\ isolated_ => isolated_'
     /\ \A t \in ScopeThreads :
          Returns(t, "flush_to_heap") =>
             /\ isolated_'
             /\ isolated_ =>
                  /\ heap_locals_' = heap_locals_
                  /\ locals_' = locals_
                  /\ \A p \in Positions :
                       GetLocalInternal(isolated_', heap_locals_', locals_', p)
                         = GetLocalInternal(isolated_, heap_locals_, locals_, p)
     /\ \A t \in ScopeThreads :
          (isolated_ /\ Returns(t, "get_local")) =>
             /\ lastAccess'.path = "heap"
             /\ \A pos \in Positions, dis \in BOOLEAN :
                  GetLocalEnd(t, pos, dis) => lastAccess'.val = heap_locals_[pos]
             /\ heap_locals_' = heap_locals_
             /\ locals_' = locals_
     /\ \A t \in ScopeThreads :
          (isolated_ /\ Returns(t, "set_local")) =>
             /\ lastAccess'.path = "heap"
             /\ \A pos \in Positions, val \in LocalVals, dis \in BOOLEAN :
                  SetLocalEnd(t, pos, val, dis) =>
                    heap_locals_' = [heap_locals_ EXCEPT ![pos] = val]
             /\ locals_' = locals_]_vars

\* C18 happens: a flush_to_heap ran on a scope that was already isolated and
\* whose heap storage had been written since the first flush.
C18_Witness ==
  /\ lastAccess.op = "flush_to_heap"
  /\ lastAccess.path = "none"
  /\ isolated_
  /\ \E p \in Positions : heap_locals_[p] = "y" /\ locals_[p] = "x"

\* C19: a set_locked on scope s leaves s and every scope reached from s
\* through the parent links locked, whatever the shape and length of the chain.
C19_SetLockedPropagates ==
  [][\A s \in Scopes :
       (s \in Created /\ SetLockedCall(s)) =>
          /\ \A a \in ChainOf(parent_, s) : LockedP(flags_', a)
          /\ parent_' = parent_]_vars

\* C19 happens: set_locked was called on the leaf of a chain through every
\* scope, of which none was locked before the call that locked them all.
C19_Witness ==
  /\ lastAccess.op = "set_locked"
  /\ ChainOf(parent_, lastAccess.scope) = Scopes
  /\ \A a \in Scopes : LockedP(flags_, a)


\* C20 as claimed: a locked scope is locked in every later state, whatever
\* get_local, set_local, flush_to_heap and mark calls are made, and each
\* access that finds it locked holds the scope's lock until it returns.
C20_LockedStaysLocked ==
  [][/\ \A s \in Scopes : LockedP(flags_, s) => LockedP(flags_', s)
     /\ \A t \in ScopeThreads :
          (LockedP(flags_, target) /\ spc[t].at = "idle" /\ spc'[t].at # "idle") =>
             spc'[t].at = "acquire"
     /\ \A t \in ScopeThreads :
          (spc[t].at = "acquire" /\ spc'[t].at # "acquire") =>
             spc'[t].at = "guarded" /\ scope_lock' = t
     /\ \A t \in ScopeThreads : spc'[t].at = "guarded" => scope_lock' = t]_vars

\* C20 as amended: a locked scope stays locked through get_local, set_local
\* and mark, and until a flush_to_heap that found it locked returns: that
\* flush runs under the scope's lock, isolates the scope and clears its
\* locked flag. Every get_local, set_local and flush_to_heap that finds the
\* scope locked takes the scope's lock before its body and holds it until it
\* returns; mark takes no lock.
C20_LockedUntilFlushed ==
  [][/\ \A s \in Scopes :
          LockedP(flags_, s) =>
             \/ LockedP(flags_', s)
             \/ /\ s = target
                /\ \E t \in ScopeThreads :
                     /\ spc[t].at = "guarded"
                     /\ scope_lock = t
                     /\ Returns(t, "flush_to_heap")
                     /\ isolated_'
     /\ \A t \in ScopeThreads :
          (spc[t].at = "guarded" /\ Returns(t, "flush_to_heap")) =>
             ~LockedP(flags_', target)
     /\ \A t \in ScopeThreads :
          (LockedP(flags_, target) /\ spc[t].at = "idle" /\ spc'[t].at # "idle") =>
             spc'[t].at = "acquire"
     /\ \A t \in ScopeThreads :
          (spc[t].at = "acquire" /\ spc'[t].at # "acquire") =>
             spc'[t].at = "guarded" /\ scope_lock' = t
     /\ \A t \in ScopeThreads : spc'[t].at = "guarded" => scope_lock' = t
     /\ (lastAccess'.op = "mark" /\ lastAccess' # lastAccess) =>
             UNCHANGED <<scope_lock, flags_, spc>>]_vars

\* C20 happens: a flush_to_heap that found the target locked returned and the
\* target is no longer locked, while the other thread, which also found it
\* locked, holds the lock inside a set_local.
C20_Witness ==
  /\ lastAccess.op = "flush_to_heap"
  /\ lastAccess.guarded
  /\ ~LockedP(flags_, target)
  /\ \E t \in ScopeThreads :
       spc[t] = [op |-> "set_local", at |-> "guarded"] /\ scope_lock = t

\* The threads past the locked_p() test of an access to the target's locals.
InsideThreads == {t \in ScopeThreads : spc[t].at \in {"guarded", "unguarded"}}

\* C21: once set_locked has run on the leaf, so that the leaf and each of its
\* ancestors are locked, at most one thread at a time is inside a get_local,
\* set_local or flush_to_heap of the target scope, calls that were in progress
\* when set_locked ran included.
C21_LockedAccessesSerialized ==
  (LockedP(flags_, ScopeNames[1]) /\ LockedP(flags_, target)) =>
     Cardinality(InsideThreads) <= 1

\* C22: set_local_prim with an index below 0 or not below number_of_locals_
\* raises an argument error and leaves every slot as it is; with a valid index
\* it writes that slot, which then reads as the object stored, and leaves
\* every other slot as it is.
C22_SetLocalPrimChecksIndex ==
  [][\A num \in PrimIndexes, val \in LocalVals, dis \in BOOLEAN :
       (lastAccess'.op = "set_local_prim" /\ SetLocalPrim(num, val, dis)) =>
          IF num < 0 \/ num >= NumberOfLocals
            THEN /\ lastAccess'.val \in {NegativeIndexError, IndexTooLargeError}
                 /\ heap_locals_' = heap_locals_
                 /\ locals_' = locals_
            ELSE /\ lastAccess'.val = val
                 /\ GetLocalInternal(isolated_', heap_locals_', locals_', num) = val
                 /\ \A p \in Positions \ {num} :
                      /\ locals_'[p] = locals_[p]
                      /\ isolated_ => heap_locals_'[p] = heap_locals_[p]
                 /\ IF isolated_ THEN locals_' = locals_
                                 ELSE heap_locals_' = heap_locals_]_vars

\* C22 happens: set_local_prim refused an index equal to number_of_locals_
\* after an earlier call had stored an object in the last valid slot.
C22_Witness ==
  /\ lastAccess.op = "set_local_prim"
  /\ lastAccess.val = IndexTooLargeError
  /\ GetLocalInternal(isolated_, heap_locals_, locals_, NumberOfLocals - 1) = "y"

\* The step in which joiner j returns from join.
JoinReturns(j) == jpc[j].at \in {"lock", "woken", "timedout"} /\ jpc'[j].at = "idle"

\* The fields of the target that a joiner has no business changing.
targetState == <<alive, vm_, rpc, locked_objects, pending_raise, pending_kill,
                 raise_reason, wakes>>

\* C23: join on a target that is not alive returns the thread without
\* waiting, and join(nil) on an alive target returns the thread only once the
\* target has been marked not alive, whatever ended its wait.
C23_JoinReturnsAfterExit ==
  [][\A j \in Joiners :
       (~jpc[j].timed /\ JoinReturns(j)) =>
          /\ jres'.result = ThreadHandle
          /\ ~alive]_vars

\* C24: a join(timeout) whose deadline passes returns nil, not the thread,
\* with join_lock_ free and the target's state as it was; a join(timeout)
\* returns the thread only when the target is not alive.
C24_TimedJoin ==
  [][\A j \in Joiners :
       (jpc[j].timed /\ JoinReturns(j)) =>
          /\ jpc[j].at = "timedout" =>
               /\ jres'.result = Nil
               /\ join_lock_' = "none"
               /\ UNCHANGED targetState
          /\ jres'.result = ThreadHandle => ~alive]_vars

\* C25: kill called by another thread on a target that has its VM registers
\* the kill on the target, wakes it and returns the thread; the registered
\* kill is there for the target's next safepoint check and stays until that
\* check unwinds the target. kill called by the target itself raises
\* thread-kill at once, registers nothing and wakes nobody.
C25_Kill ==
  [][/\ (vm_ /\ wakes < MaxWakes /\ Kill("other")) =>
          /\ pending_kill'
          /\ wakes' = wakes + 1
          /\ lastCall'.result = ThreadHandle
     /\ (vm_ /\ rpc = "function" /\ wakes < MaxWakes /\ Kill("target")) =>
          /\ raise_reason' = "cThreadKill"
          /\ lastCall'.result = Null
          /\ UNCHANGED <<pending_kill, pending_raise, wakes>>
     /\ (pending_kill /\ rpc = "function") => ENABLED SafepointKill
     /\ (pending_kill /\ ~pending_kill') =>
          /\ rpc = "function"
          /\ rpc' = "finished"
          /\ raise_reason' = "cThreadKill"]_vars

\* C25 happens: another thread killed the target, which then unwound at a
\* safepoint and is past its function.
C25_Witness ==
  /\ lastCall.op = "kill"
  /\ lastCall.caller = "other"
  /\ lastCall.result = ThreadHandle
  /\ raise_reason = "cThreadKill"
  /\ ~pending_kill
  /\ rpc = "zombie"

\* C26: on a target that is not alive, or that has no VM, raise, kill and
\* wakeup register no exception and no kill and send no wake.
C26_NoEffectOnFinishedThread ==
  [][(~alive \/ ~vm_) => UNCHANGED <<pending_raise, pending_kill, wakes>>]_vars

\* C27: whenever the loop of ImmixMarker::run exits and whenever
\* after_fork_child runs, the mature-mark-in-progress flag is cleared: the
\* step that leaves run() and every after_fork_child step end with the flag
\* clear, and in no state has the marker stopped, or been reinitialized in a
\* forked child without a new cycle begun since, with the flag still set.
C27_FlagClearedOnExitAndFork ==
  /\ [](mpc = "done" => ~mature_mark_)
  /\ [](forked = "child" => ~mature_mark_)
  /\ [][(mpc' = "done" /\ mpc # "done") => ~mature_mark_']_vars
  /\ [][AfterForkChild => ~mature_mark_']_vars

\* The marker has left run() after a handshake restarted a mark cycle.
C27_Witness ==
  /\ mpc = "done"
  /\ handshake = HandshakeOrder
  /\ ~mature_mark_

\* The handshake calls made so far are the first calls of HandshakeOrder.
HandshakeInOrder ==
  /\ Len(handshake) <= Len(HandshakeOrder)
  /\ handshake = SubSeq(HandshakeOrder, 1, Len(handshake))

\* The marker is between the test of line 88 and the end of the handshake.
InHandshake ==
  mpc \in {"set_stop", "lock_phase", "collect_full_finish", "collect_full_restart"}

\* C28: the marker performs the full-collection handshake only when a full
\* collection is requested, in the order set_stop, LockPhase,
\* collect_full_finish, collect_full_restart; collect_full_finish is called
\* inside the lock phase only and the marker's next call after it is
\* collect_full_restart; after the handshake the marker goes back to the
\* head of its loop and never to sleeping_suspend.
C28_FullCollectionHandshake ==
  /\ [](InHandshake => collect_full_)
  /\ [](HandshakeInOrder)
  /\ [][(handshake' # handshake /\ handshake' # <<>>) =>
          /\ InHandshake /\ collect_full_
          /\ handshake' = SubSeq(HandshakeOrder, 1, Len(handshake'))
          /\ (Len(handshake') > 1 => handshake' = Append(handshake, HandshakeOrder[Len(handshake')]))
          /\ (Len(handshake') = 3 => lock_phase /\ lock_phase')
          /\ (Len(handshake') = 4 => lock_phase /\ Len(handshake) = 3)]_vars
  /\ [][(Len(handshake) = 3 /\ mpc' # mpc) => handshake' = HandshakeOrder]_vars
  /\ [][(Len(handshake) = 3) => lock_phase']_vars
  /\ [][(mpc = "continue" /\ mpc' # mpc) => mpc' = "top"]_vars
  /\ [][(mpc' = "sleep" /\ mpc # "sleep") => (mpc = "full" /\ ~collect_full_)]_vars

\* A handshake has been completed and the marker is marking again.
C28_Witness ==
  /\ handshake = HandshakeOrder
  /\ mpc = "check"
  /\ mature_mark_
  /\ ~lock_phase

\* C30: send(v) with v non-nil on a channel holding k permits and FIFO q
\* leaves the permit counter at 0 and the FIFO equal to q, then k nil
\* entries, then v; send(nil) adds one to the permit counter and leaves the
\* FIFO unchanged; send never waits: it can be called in every state, ends
\* in the step it is called in and makes no thread a waiter.
C30_SendDrainsPermits ==
  /\ [](Len(sent) < MaxSends => \A val \in SendVals : ENABLED Send(val))
  /\ [][(sent' # sent) =>
          LET val == sent'[Len(sent')]
              k == semaphore_count_
              q == value_
          IN /\ sent' = Append(sent, val)
             /\ IF val = Nil
                  THEN semaphore_count_' = k + 1 /\ value_' = q
                  ELSE semaphore_count_' = 0 /\ value_' = (q \o Nils(k)) \o <<val>>
             /\ waiters_' = waiters_
             /\ \A t \in Receivers : cpc'[t] = "waiting" => cpc[t] = "waiting"]_vars

\* A non-nil send has found one permit and a FIFO that was not empty.
C30_Witness ==
  /\ sent = <<"a", Nil, "b">>
  /\ value_ = <<"a", Nil, "b">>
  /\ semaphore_count_ = 0

C31_FlushKeepsLocals ==
  [][\A t \in ScopeThreads :
       Returns(t, "flush_to_heap") =>
         \A pos \in Positions :
           GetLocalInternal(isolated_', heap_locals_', locals_', pos)
             = GetLocalInternal(isolated_, heap_locals_, locals_, pos)]_vars

\* C32: a lease made when the pool has max_stacks_ stacks and no unused stack
\* of sufficient size returns a stack that no other context holds, whose
\* reference count is the least of the pool, and adds one to that count.
C32_ReclaimsUnusedStack ==
  [][\A c \in Contexts :
       (/\ lease[c] = 0
        /\ lease'[c] # 0
        /\ Len(stacks_) = MaxStacks
        /\ FirstFit(stacks_, lastAlloc'.size) = 0) =>
         LET i == lease'[c]
         IN /\ \A d \in Contexts \ {c} : lease[d] # i
            /\ \A j \in 1..Len(stacks_) : stacks_[i].refs <= stacks_[j].refs
            /\ stacks_'[i].refs = stacks_[i].refs + 1]_vars

\* The step in which the current fiber of thread t goes to sleep inside
\* transfer: a transfer that passed its checks.
Transfers(t) ==
  /\ fpc[t] = "user"
  /\ fib[current_fiber[t]].susp # "transfer"
  /\ fib'[current_fiber[t]].susp = "transfer"

\* C33: a transfer that succeeds leaves the prev link of its target at the
\* root fiber of the thread, whichever fiber called it; a prev link that is
\* the root fiber stays so until the fiber yields, and that yield switches to
\* the root fiber; a fiber that dies with the root fiber as prev hands control
\* to the root fiber.
C33_TransferLinksToRoot ==
  /\ [][\A t \in Threads :
          Transfers(t) =>
            /\ fib'[current_fiber'[t]].prev = RootOf(t)
            /\ fib'[current_fiber'[t]].status = "Running"]_vars
  /\ [][\A t \in Threads, f \in Fibers :
          (fib[f].prev = RootOf(t) /\ fib'[f].prev # RootOf(t)) =>
            /\ fib'[f].prev = NoFiber
            /\ current_fiber[t] = f
            /\ fib'[f].susp = "yield"
            /\ current_fiber'[t] = RootOf(t)]_vars
  /\ [][\A t \in Threads :
          (/\ fib[current_fiber[t]].status # "Dead"
           /\ fib'[current_fiber[t]].status = "Dead"
           /\ fib[current_fiber[t]].prev = RootOf(t)) =>
            current_fiber'[t] = RootOf(t)]_vars

\* A fiber resumed by the root fiber has transferred to another fiber, which
\* has died: the root fiber runs and the fiber that transferred still sleeps.
C33_Witness ==
  /\ current_fiber["A"] = RootOf("A")
  /\ fib["f1"].susp = "transfer"
  /\ fib["f1"].status = "Sleeping"
  /\ fib["f2"].status = "Dead"
  /\ fib["f2"].prev = RootOf("A")

\* C34: Dead is terminal: a fiber whose status is Dead keeps that status in
\* every step, and every resume or transfer whose target is such a fiber
\* raises the dead-fiber error (a step that records anything else is no
\* resume or transfer of a dead fiber).
C34_DeadIsTerminal ==
  /\ [][\A f \in Fibers : fib[f].status = "Dead" => fib'[f].status = "Dead"]_vars
  /\ [][(ResumeRecorded /\ last' # Outcome("error", DeadFiberError, <<>>)) =>
          \A t \in Threads, f \in Fibers, args \in ArgLists :
            fib[f].status = "Dead" => ~(Resume(t, f, args) \/ Transfer(t, f, args))]_vars

\* A dead fiber was called while a fiber created later runs.
C34_Witness ==
  /\ last = Outcome("error", DeadFiberError, <<>>)
  /\ fib["f1"].status = "Dead"
  /\ current_fiber["A"] = "f2"

\* C37: a dying fiber stores its exception only in a prev fiber that is
\* suspended inside resume or transfer and has no exception pending; a fiber
\* with a pending exception is the one its thread has just switched to, at
\* the continuation of resume or transfer; the pending exception is cleared
\* only by the step that raises it, and an exception is raised only by the
\* step that clears it: none is dropped and none is raised twice.
C37_PendingExceptionRaisedOnce ==
  /\ [](\A f \in Fibers :
          fib[f].exception # NoException =>
            /\ fib[f].susp \in {"resume", "transfer"}
            /\ \E t \in Threads : current_fiber[t] = f /\ fpc[t] \in {"switched", "abort"})
  /\ [][\A f \in Fibers :
          (fib[f].exception = NoException /\ fib'[f].exception # NoException) =>
            /\ fib[f].susp \in {"resume", "transfer"}
            /\ fib[f].status = "Sleeping"
            /\ \E t \in Threads :
                 /\ fib[current_fiber[t]].prev = f
                 /\ fib'[current_fiber[t]].status = "Dead"
                 /\ current_fiber'[t] = f]_vars
  /\ [][\A f \in Fibers :
          (fib[f].exception # NoException /\ fib'[f].exception # fib[f].exception) =>
            /\ fib'[f].exception = NoException
            /\ last' = Outcome("raise", fib[f].exception, <<>>)]_vars
  /\ [][last'.kind = "raise" =>
          \E f \in Fibers :
            /\ fib[f].exception = last'.v
            /\ fib'[f].exception = NoException]_vars

\* The exception of a fiber that died has been raised in the root fiber.
C37_Witness ==
  /\ last = Outcome("raise", "e", <<>>)
  /\ fib["f1"].status = "Dead"
  /\ current_fiber["A"] = RootOf("A")
  /\ fpc["A"] = "user"
  /\ \A f \in Fibers : fib[f].exception = NoException

\* C35: the exiting thread marks itself not alive, releases its object locks
\* and broadcasts join_cond_ in that order, holding join_lock_ throughout;
\* when join returns the thread and the target is not alive, the target holds
\* no object lock any more; no joiner is left waiting once the broadcast has
\* been made.
C35_ExitUnderJoinLock ==
  /\ [](rpc \in {"locked", "stopped", "released", "broadcast"} => join_lock_ = "target")
  /\ [](rpc \in {"released", "broadcast", "unlocked", "zombie"} =>
          ~alive /\ locked_objects = {})
  /\ [](rpc \in {"broadcast", "unlocked", "zombie"} =>
          \A j \in Joiners : jpc[j].at # "waiting")
  /\ [][(alive /\ ~alive') => (rpc = "locked" /\ rpc' = "stopped")]_vars
  /\ [][(rpc = "stopped" /\ rpc' # rpc) => (rpc' = "released" /\ locked_objects' = {})]_vars
  /\ [][(rpc = "released" /\ rpc' # rpc) =>
          /\ rpc' = "broadcast"
          /\ \A j \in Joiners : jpc[j].at = "waiting" => jpc'[j].at = "woken"]_vars
  /\ [][\A j \in Joiners :
          (JoinReturns(j) /\ jres'.result = ThreadHandle /\ ~alive) =>
            /\ locked_objects = {}
            /\ rpc \in {"unlocked", "zombie"}]_vars

\* The target has exited; a joiner that waited has the thread back and the
\* other, woken too, is about to return.
C35_Witness ==
  /\ rpc = "unlocked"
  /\ jres = [joiner |-> "j1", result |-> ThreadHandle, alive |-> FALSE, timedout |-> FALSE]
  /\ jpc["j2"].at = "woken"
  /\ locked_objects = {}

\* C36: once thread_exit_ is set, run() eventually leaves its loop and
\* finishes, whatever full-collection, young-collection and interrupt
\* requests are pending (unless the process forks, and the child starts a
\* new marker with the flag reset).
C36_ExitTerminates ==
  thread_exit_ ~> (mpc = "done" \/ ~thread_exit_)

\* The marker has finished after a stop, with a full collection, a young
\* collection and an interrupt all pending and work still on the mark stack.
C36_Witness ==
  /\ mpc = "done"
  /\ thread_exit_
  /\ collect_full_ /\ collect_young_ /\ interrupt_
  /\ mark_stack > 0
  /\ forked = "no"

\* The threads inside the wait loop of receive: registered in waiters_ and
\* not yet past line 170.
Registered == {t \in Receivers : cpc[t] \in {"waiting", "woken"}}

\* C38: when the channel holds an entry or a permit while a receiver is
\* blocked in receive without timeout, then eventually the channel has been
\* emptied by a receiver or no receiver is left in receive.
C38_NoReceiverLeftBlocked ==
  ((\E t \in Receivers : cpc[t] \in {"waiting", "woken"} /\ ~timed[t])
     /\ (value_ # <<>> \/ semaphore_count_ > 0))
    ~> ((value_ = <<>> /\ semaphore_count_ = 0) \/ Registered = {})

\* C39: waiters_ is the number of threads between the registration of line
\* 143 and the deregistration of line 170: never negative, zero when no
\* receive is in progress, one less after every exit from the wait loop and
\* untouched by the calls that return without waiting.
C39_WaitersCounted ==
  /\ [](waiters_ = Cardinality(Registered))
  /\ [](waiters_ >= 0)
  /\ []((\A t \in Receivers : cpc[t] = "idle") => waiters_ = 0)
  /\ [][\A t \in Receivers :
          (cpc[t] # "idle" /\ cpc'[t] = "idle") => waiters_' = waiters_ - 1]_vars
  /\ [][(cpc' = cpc) => waiters_' = waiters_]_vars

\* r1 waited and returned interrupted while r2 is still waiting: one thread
\* is counted.
C39_Witness ==
  /\ cres = Result("r1", Interrupted)
  /\ cpc["r1"] = "idle"
  /\ cpc["r2"] = "waiting"
  /\ ~pinned
  /\ waiters_ = 1

\* C40: every pin taken by receive is undone before receive returns: the
\* channel is not left pinned when no receive is in progress, and a call
\* that returns without waiting leaves the pin as it found it.
C40_PinMatchedByUnpin ==
  /\ []((\A t \in Receivers : cpc[t] = "idle") => ~pinned)
  /\ [][(cpc' = cpc) => pinned' = pinned]_vars

====
